---- MODULE Spec2Model ----
(***************************************************************************)
(* A model of the WURFL Microservice Go client (package wmclient): the     *)
(* WmClient object, its two LRU caches, its auxiliary tables, the token    *)
(* driven invalidation and the goroutines that call its methods.           *)
(*                                                                         *)
(* Every method is a sequence of steps; a step is one shared-memory access *)
(* or one lock operation of the Go code, so that goroutines interleave     *)
(* where the Go scheduler lets them.  pc[t] is the statement goroutine t   *)
(* executes next, loc[t] holds its local variables.                        *)
(*                                                                         *)
(* Go maps (map[string]string) are sets of <<key, value>> pairs with       *)
(* pairwise different keys; a nil slice and an empty slice are both <<>>   *)
(* (the client code never tells them apart); the empty string is "".       *)
(***************************************************************************)
EXTENDS Naturals, Sequences, FiniteSets, TLC

(***************************************************************************)
(* Bounds of the model.                                                    *)
(***************************************************************************)
\* the server reloads its data at most this many times after Create
MaxReloads == 1

\* the calls the caller that records them makes
MaxCalls == 3

(***************************************************************************)
(* Program constants.                                                      *)
(***************************************************************************)
userAgentHeader == "User-Agent"
deviceDefaultCacheSize == 20000

(***************************************************************************)
(* Go maps as sets of pairs.                                               *)
(***************************************************************************)
MapKeys(m) == {p[1] : p \in m}

\* m[k] of Go: the value stored under k, the zero value "" when k is absent
MapGet(m, k) == IF k \in MapKeys(m) THEN (CHOOSE p \in m : p[1] = k)[2] ELSE ""

SeqToSet(s) == {s[i] : i \in 1..Len(s)}

(***************************************************************************)
(* strings.ToLower and textproto.CanonicalMIMEHeaderKey on the header      *)
(* names of the model.  TLC has no character operations, so both are       *)
(* tabulated over the names the model uses.                                *)
(***************************************************************************)

ToLower(name) ==
    CASE name \in {"User-Agent", "user-agent", "USER-AGENT"} -> "user-agent"
      [] name \in {"X-UCBrowser-Device-UA", "x-ucbrowser-device-ua",
                   "X-Ucbrowser-Device-Ua"} -> "x-ucbrowser-device-ua"
      [] name \in {"Accept-Encoding", "accept-encoding"} -> "accept-encoding"

CanonicalMIMEHeaderKey(name) ==
    CASE name \in {"User-Agent", "user-agent", "USER-AGENT"} -> "User-Agent"
      [] name \in {"X-UCBrowser-Device-UA", "x-ucbrowser-device-ua",
                   "X-Ucbrowser-Device-Ua"} -> "X-Ucbrowser-Device-Ua"
      [] name \in {"Accept-Encoding", "accept-encoding"} -> "Accept-Encoding"

(***************************************************************************)
(* The LRU cache of github.com/golang/groupcache/lru: a list of entries,   *)
(* most recently used first.  A WmClient field that holds no cache (nil    *)
(* pointer) is NoCache.  MaxEntries = 0 means no limit.                    *)
(***************************************************************************)
NoCache == [on |-> FALSE, MaxEntries |-> 0, ll |-> <<>>]

lruNew(maxEntries) == [on |-> TRUE, MaxEntries |-> maxEntries, ll |-> <<>>]

lruLen(c) == Len(c.ll)

lruKeys(c) == {c.ll[i].key : i \in 1..Len(c.ll)}

lruIndex(c, key) == CHOOSE i \in 1..Len(c.ll) : c.ll[i].key = key

lruValue(c, key) == c.ll[lruIndex(c, key)].value

Without(s, i) == SubSeq(s, 1, i - 1) \o SubSeq(s, i + 1, Len(s))

\* Get: on a hit the entry moves to the front
lruGet(c, key) ==
    IF key \in lruKeys(c)
    THEN [c EXCEPT !.ll = <<c.ll[lruIndex(c, key)]>> \o Without(c.ll, lruIndex(c, key))]
    ELSE c

\* Add: replace and move to front, or insert at the front and drop the oldest
\* entry when the list is longer than MaxEntries
lruAdd(c, key, value) ==
    IF key \in lruKeys(c)
    THEN [c EXCEPT !.ll = <<[key |-> key, value |-> value]>>
                          \o Without(c.ll, lruIndex(c, key))]
    ELSE LET grown == <<[key |-> key, value |-> value]>> \o c.ll
         IN  IF c.MaxEntries # 0 /\ Len(grown) > c.MaxEntries
             THEN [c EXCEPT !.ll = SubSeq(grown, 1, Len(grown) - 1)]
             ELSE [c EXCEPT !.ll = grown]

lruClear(c) == [c EXCEPT !.ll = <<>>]

(***************************************************************************)
(* The cache key of the header cache.                                      *)
(***************************************************************************)
\* md5.Sum + hex.EncodeToString: a digest, taken to have no collisions
md5Hex(s) == "md5:" \o s

RECURSIVE ConcatValues(_, _)
ConcatValues(names, headers) ==
    IF names = <<>> THEN ""
    ELSE MapGet(headers, Head(names)) \o ConcatValues(Tail(names), headers)

getUserAgentCacheKey(importantHeaders, headers) ==
    md5Hex(ConcatValues(importantHeaders, headers))

(***************************************************************************)
(* Header selection.  An http.Header maps canonical names to value lists:  *)
(* a set of <<name, values>> pairs.                                        *)
(***************************************************************************)
HeaderValues(header, key) ==
    IF key \in MapKeys(header) THEN (CHOOSE p \in header : p[1] = key)[2] ELSE <<>>

\* http.Header.Add
HeaderAdd(header, key, value) ==
    LET k == CanonicalMIMEHeaderKey(key)
    IN  {p \in header : p[1] # k} \cup {<<k, Append(HeaderValues(header, k), value)>>}

\* http.Header.Get: the first value under the canonical form of key
HeaderGet(header, key) ==
    LET v == HeaderValues(header, CanonicalMIMEHeaderKey(key))
    IN  IF v = <<>> THEN "" ELSE v[1]

\* the request.Header that the calls adds (a list of <<name, value>>) build
RECURSIVE BuildHeader(_)
BuildHeader(adds) ==
    IF adds = <<>> THEN {}
    ELSE HeaderAdd(BuildHeader(SubSeq(adds, 1, Len(adds) - 1)),
                   adds[Len(adds)][1], adds[Len(adds)][2])

\* a faulty "copy headers" that stores a value under the name as net/http
\* spells it, not as the server does
CopyCanonicalHeaders(importantHeaders, header) ==
    {<<CanonicalMIMEHeaderKey(importantHeaders[i]), HeaderGet(header, importantHeaders[i])>> :
        i \in {j \in 1..Len(importantHeaders) :
                  HeaderGet(header, importantHeaders[j]) # ""}}

\* LookupRequest, "copy headers": the important headers request.Header has a
\* non-empty value for, under the important header's own name
CopyRequestHeaders(importantHeaders, header) ==
    {<<importantHeaders[i], HeaderGet(header, importantHeaders[i])>> :
        i \in {j \in 1..Len(importantHeaders) :
                  HeaderGet(header, importantHeaders[j]) # ""}}

\* LookupHeaders, "make all headers lowercase": the maps the loop over headers
\* can build.  Go iterates a map in no fixed order, so of two names that differ
\* only in case either one's value can be the one that is kept.
LowerKeyMaps(headers) ==
    LET lowered == {<<ToLower(p[1]), p[2]>> : p \in headers}
    IN  {m \in SUBSET lowered :
            /\ MapKeys(m) = MapKeys(lowered)
            /\ \A p, q \in m : p[1] = q[1] => p = q}

\* a faulty "copy headers" that looks the important header up under its own
\* spelling
CopyExactHeaders(importantHeaders, lowerKeyMap) ==
    {<<importantHeaders[i], MapGet(lowerKeyMap, importantHeaders[i])>> :
        i \in {j \in 1..Len(importantHeaders) :
                  MapGet(lowerKeyMap, importantHeaders[j]) # ""}}

\* LookupHeaders, "copy headers"
CopyLowerHeaders(importantHeaders, lowerKeyMap) ==
    {<<importantHeaders[i], MapGet(lowerKeyMap, ToLower(importantHeaders[i]))>> :
        i \in {j \in 1..Len(importantHeaders) :
                  MapGet(lowerKeyMap, ToLower(importantHeaders[j])) # ""}}

(***************************************************************************)
(* The capability registry.  Go compares strings byte by byte; NameOrder   *)
(* lists the capability names of the model in that order.                  *)
(***************************************************************************)
NameOrder == <<"brand_name", "invalid_name1", "invalid_name2", "is_ios", "model_name">>

Rank(name) == CHOOSE i \in 1..Len(NameOrder) : NameOrder[i] = name

\* a >= b on strings
StrGeq(a, b) == Rank(a) >= Rank(b)

RECURSIVE Insert(_, _)
Insert(s, x) ==
    IF s = <<>> THEN <<x>>
    ELSE IF StrGeq(Head(s), x) THEN <<x>> \o s
    ELSE <<Head(s)>> \o Insert(Tail(s), x)

\* sort.Strings
RECURSIVE SortStrings(_)
SortStrings(s) == IF s = <<>> THEN <<>> ELSE Insert(SortStrings(Tail(s)), Head(s))

\* sort.SearchStrings: binary search for the smallest index (from 0) whose
\* element is >= value, Len(slist) when there is none
RECURSIVE Search(_, _, _, _)
Search(slist, value, i, j) ==
    IF i < j
    THEN LET h == (i + j) \div 2
         IN  IF ~StrGeq(slist[h + 1], value)
             THEN Search(slist, value, h + 1, j)
             ELSE Search(slist, value, i, h)
    ELSE i

SearchStrings(slist, value) == Search(slist, value, 0, Len(slist))

sliceHasValue(slist, value) ==
    LET index == SearchStrings(slist, value)
    IN  index < Len(slist) /\ value = slist[index + 1]

\* a faulty setter that takes every name it is passed
FilterNothing(CapsList, slist) == CapsList

\* the loop of SetRequestedStaticCapabilities and SetRequestedVirtualCapabilities:
\* the names of CapsList that are in slist, in the order of CapsList
RECURSIVE FilterHas(_, _)
FilterHas(CapsList, slist) ==
    IF CapsList = <<>> THEN <<>>
    ELSE (IF sliceHasValue(slist, Head(CapsList)) THEN <<Head(CapsList)>> ELSE <<>>)
         \o FilterHas(Tail(CapsList), slist)

\* a faulty SetRequestedCapabilities that tests every name for both kinds
FilterElseBoth(CapsList, first, second) == FilterHas(CapsList, second)

\* the else-if branch of the loop of SetRequestedCapabilities: the names of
\* CapsList that are not in first and are in second
RECURSIVE FilterElse(_, _, _)
FilterElse(CapsList, first, second) ==
    IF CapsList = <<>> THEN <<>>
    ELSE (IF ~sliceHasValue(first, Head(CapsList)) /\ sliceHasValue(second, Head(CapsList))
          THEN <<Head(CapsList)>> ELSE <<>>)
         \o FilterElse(Tail(CapsList), first, second)

(***************************************************************************)
(* The WM server, as far as the client sees it.  Its reload-time token     *)
(* changes with every reload of its data: Ltimes[g] is the token of        *)
(* generation g.                                                           *)
(***************************************************************************)
Ltimes == <<"2019-12-01", "2019-12-02", "2019-12-03", "2019-12-04">>

\* the JSONInfoData the server sends at Create
ServerInfo ==
    [StaticCaps |-> <<"model_name", "brand_name">>,
     VirtualCaps |-> <<"is_ios">>,
     ImportantHeaders |-> <<"User-Agent", "X-UCBrowser-Device-UA">>]

\* model.go JSONInfoData
NoInfo == [StaticCaps |-> <<>>, VirtualCaps |-> <<>>, ImportantHeaders |-> <<>>]

\* model.go Request
NoRequest ==
    [LookupHeaders |-> {}, RequestedCaps |-> <<>>, RequestedVCaps |-> <<>>, WurflID |-> ""]

\* model.go JSONDeviceData, behind a pointer that may be nil.  Capabilities is
\* what the server found for the request, so it is modelled by that request.
NoData ==
    [isNil |-> TRUE, APIVersion |-> "", hasCaps |-> FALSE, capsFor |-> NoRequest,
     Error |-> "", Mtime |-> 0, Ltime |-> ""]

\* the JSON body the server sends for a lookup
ServerLookup(request, ltime, outcome) ==
    IF outcome = "ok"
    THEN [isNil |-> FALSE, APIVersion |-> "WURFL_API", hasCaps |-> TRUE,
          capsFor |-> request, Error |-> "", Mtime |-> 1, Ltime |-> ltime]
    ELSE [isNil |-> FALSE, APIVersion |-> "WURFL_API", hasCaps |-> FALSE,
          capsFor |-> NoRequest, Error |-> "device not found", Mtime |-> 1,
          Ltime |-> ltime]

\* the listings of /v2/alldeviceosversions/json and /v2/alldevices/json: a
\* reload of the server's data adds a device to them
OsListing(gen) ==
    <<[OsName |-> "Android", OsVersion |-> "7.0"],
      [OsName |-> "Android", OsVersion |-> ""],
      [OsName |-> "iOS", OsVersion |-> "10.2"]>>
    \o (IF gen > 1 THEN <<[OsName |-> "Bada", OsVersion |-> ""]>> ELSE <<>>)

MakeListing(gen) ==
    <<[BrandName |-> "Nokia", ModelName |-> "3310", MarketingName |-> ""],
      [BrandName |-> "Apple", ModelName |-> "iPhone", MarketingName |-> "iPhone 7"],
      [BrandName |-> "Nokia", ModelName |-> "N95", MarketingName |-> ""]>>
    \o (IF gen > 1
        THEN <<[BrandName |-> "Samsung", ModelName |-> "GT-S5253", MarketingName |-> "Wave"]>>
        ELSE <<>>)

(***************************************************************************)
(* The auxiliary tables: the loops of loadDeviceOsesData and               *)
(* loadDeviceMakesData over the decoded listing.                           *)
(***************************************************************************)
\* a faulty build loop that stores the last value of a key in place of the
\* values before it
MapAppendLast(m, k, v) == {p \in m : p[1] # k} \cup {<<k, <<v>>>>}

\* append(m[k], v) stored back under k
MapAppend(m, k, v) ==
    {p \in m : p[1] # k}
    \cup {<<k, Append(IF k \in MapKeys(m) THEN (CHOOSE p \in m : p[1] = k)[2] ELSE <<>>, v)>>}

\* [keys, map] after the loop has run over the first n entries; key(e) and
\* value(e) are what the loop takes from an entry
RECURSIVE BuildOses(_, _)
BuildOses(osVersionModels, n) ==
    IF n = 0 THEN [keys |-> <<>>, map |-> {}]
    ELSE LET before == BuildOses(osVersionModels, n - 1)
             ovModel == osVersionModels[n]
         IN  [keys |-> IF ovModel.OsName \notin MapKeys(before.map)
                       THEN Append(before.keys, ovModel.OsName) ELSE before.keys,
              map |-> MapAppend(before.map, ovModel.OsName, ovModel.OsVersion)]

RECURSIVE BuildMakes(_, _)
BuildMakes(mkModels, n) ==
    IF n = 0 THEN [keys |-> <<>>, map |-> {}]
    ELSE LET before == BuildMakes(mkModels, n - 1)
             mkModel == mkModels[n]
         IN  [keys |-> IF mkModel.BrandName \notin MapKeys(before.map)
                       THEN Append(before.keys, mkModel.BrandName) ELSE before.keys,
              map |-> MapAppend(before.map, mkModel.BrandName,
                                [ModelName |-> mkModel.ModelName,
                                 MarketingName |-> mkModel.MarketingName])]

\* a faulty GetAllVersionsForOS that returns the versions as they are stored
NonEmptyKept(val) == val

\* GetAllVersionsForOS, "remove all empty version fields"
RECURSIVE NonEmpty(_)
NonEmpty(val) ==
    IF val = <<>> THEN <<>>
    ELSE (IF Head(val) # "" THEN <<Head(val)>> ELSE <<>>) \o NonEmpty(Tail(val))

(***************************************************************************)
(* The state.                                                              *)
(***************************************************************************)
VARIABLES
    serverGen,              \* server: the generation of its data
    clientLtime,            \* WmClient.clientLtime
    StaticCaps,             \* WmClient.StaticCaps
    VirtualCaps,            \* WmClient.VirtualCaps
    ImportantHeaders,       \* WmClient.ImportantHeaders
    requestedStaticCaps,    \* WmClient.requestedStaticCaps
    requestedVirtualCaps,   \* WmClient.requestedVirtualCaps
    userAgentCache,         \* WmClient.userAgentCache
    deviceCache,            \* WmClient.deviceCache
    mkModels,               \* WmClient.mkModels
    deviceMakes,            \* WmClient.deviceMakes
    deviceMakesMap,         \* WmClient.deviceMakesMap
    deviceOses,             \* WmClient.deviceOses
    deviceOsVerMap,         \* WmClient.deviceOsVerMap
    httpClient,             \* WmClient.httpClient: TRUE while it is not nil
    lock,                   \* the five sync.Mutex of WmClient: holder or ""
    pc,                     \* per goroutine: the statement it executes next
    loc,                    \* per goroutine: its local variables
    hist                    \* the caller's record of the calls that returned

vars == <<serverGen, clientLtime, StaticCaps, VirtualCaps, ImportantHeaders,
          requestedStaticCaps, requestedVirtualCaps, userAgentCache, deviceCache,
          mkModels, deviceMakes, deviceMakesMap, deviceOses, deviceOsVerMap,
          httpClient, lock, pc, loc, hist>>

registry == <<StaticCaps, VirtualCaps, ImportantHeaders>>
requested == <<requestedStaticCaps, requestedVirtualCaps>>
caches == <<userAgentCache, deviceCache>>
makesTable == <<deviceMakes, deviceMakesMap>>
osesTable == <<deviceOses, deviceOsVerMap>>
tables == <<mkModels, deviceMakes, deviceMakesMap, deviceOses, deviceOsVerMap>>

Threads == {"t1", "t2"}

LockNames ==
    {"lruUserAgentCS", "lruDeviceCS", "mkMdMutex", "deviceMakesMutex", "deviceOsesMutex"}

NoList == [names |-> <<>>, nil |-> TRUE]

\* the local variables of a goroutine that executes no method
NoLoc ==
    [headers |-> {},       \* LookupHeaders: headers
     header |-> {},        \* LookupRequest: request.Header
     CapsList |-> NoList,  \* SetRequested...: CapsList
     ltime |-> "",         \* clearCachesIfNeeded: ltime
     keys |-> <<>>, map |-> {},   \* the table a load has built
     op |-> "",            \* the method it executes
     arg |-> "",           \* userAgent, deviceID
     size |-> 0,           \* SetCacheSize: uaMaxEntries
     jrequest |-> NoRequest,
     ok |-> FALSE,         \* the cache probe hit
     deviceData |-> NoData,
     cleared |-> FALSE,    \* clearCachesIfNeeded took its branch
     err |-> "",
     dSize |-> 0, uaSize |-> 0,
     fetch |-> "",         \* load...Data: what became of its internalGet
     retVal |-> <<>>,             \* GetAll...: the list returned
     scheme |-> "", Host |-> "",  \* Create: client.scheme, Host
     info |-> NoInfo,             \* Create: data, the answer of its GetInfo
     client |-> FALSE,            \* Create: the client it returns is not nil
     has |-> FALSE]               \* Has...Capability: its result

\* Create: the state of a client that Create returned.  Its GetInfo stored the
\* server's token and no table is loaded.
Created ==
    /\ serverGen = 1
    /\ clientLtime = Ltimes[1]
    /\ StaticCaps = SortStrings(ServerInfo.StaticCaps)
    /\ VirtualCaps = SortStrings(ServerInfo.VirtualCaps)
    /\ ImportantHeaders = ServerInfo.ImportantHeaders
    /\ requestedStaticCaps = <<>>
    /\ requestedVirtualCaps = <<>>
    /\ mkModels = <<>>
    /\ deviceMakes = <<>>
    /\ deviceMakesMap = {}
    /\ deviceOses = <<>>
    /\ deviceOsVerMap = {}
    /\ httpClient = TRUE
    /\ lock = [l \in LockNames |-> ""]
    /\ pc = [t \in Threads |-> "idle"]
    /\ loc = [t \in Threads |-> NoLoc]
    /\ hist = <<>>

\* Create alone: the client has no cache
Init ==
    /\ Created
    /\ userAgentCache = NoCache
    /\ deviceCache = NoCache

\* the header cache sizes SetCacheSize is called with
CacheSizes == {1, 2}

\* createTestCachedClient: Create, then SetCacheSize
InitCached ==
    /\ Created
    /\ \E uaMaxEntries \in CacheSizes : userAgentCache = lruNew(uaMaxEntries)
    /\ deviceCache = lruNew(deviceDefaultCacheSize)

(***************************************************************************)
(* Steps.                                                                  *)
(***************************************************************************)
Goto(t, label) == pc' = [pc EXCEPT ![t] = label]

Acquire(t, m) == lock[m] = "" /\ lock' = [lock EXCEPT ![m] = t]

Release(t, m) == lock' = [lock EXCEPT ![m] = ""]

HeaderLookups == {"LookupRequest", "LookupHeaders", "LookupUserAgent"}

Lookups == HeaderLookups \cup {"LookupDeviceID"}

\* the cache a lookup method works on, and the mutex it takes for it
CacheOf(op) == IF op \in HeaderLookups THEN userAgentCache ELSE deviceCache

MutexOf(op) == IF op \in HeaderLookups THEN "lruUserAgentCS" ELSE "lruDeviceCS"

\* the key a lookup method probes and adds with
KeyOf(l) ==
    IF l.op \in HeaderLookups
    THEN getUserAgentCacheKey(ImportantHeaders, l.jrequest.LookupHeaders)
    ELSE l.arg

(* ---- the calls: a goroutine that executes nothing enters a method ---- *)

\* a faulty LookupUserAgent that refuses an empty user-agent itself
LookupUserAgentChecked(t, userAgent) ==
    /\ pc[t] = "idle"
    /\ loc' = [loc EXCEPT ![t] =
                 [NoLoc EXCEPT !.op = "LookupUserAgent", !.arg = userAgent,
                               !.headers = {<<userAgentHeader, userAgent>>},
                               !.jrequest.LookupHeaders = {<<userAgentHeader, userAgent>>},
                               !.err = IF userAgent = "" THEN "empty user-agent" ELSE ""]]
    /\ Goto(t, IF userAgent = "" THEN "ret" ELSE "probe_chk")
    /\ UNCHANGED <<hist, serverGen, clientLtime, registry, requested, caches, tables,
                   httpClient, lock>>

\* LookupUserAgent: headers := map[string]string{userAgentHeader: userAgent}
LookupUserAgent(t, userAgent) ==
    /\ pc[t] = "idle"
    /\ loc' = [loc EXCEPT ![t] =
                 [NoLoc EXCEPT !.op = "LookupUserAgent", !.arg = userAgent,
                               !.headers = {<<userAgentHeader, userAgent>>},
                               !.jrequest.LookupHeaders = {<<userAgentHeader, userAgent>>}]]
    /\ Goto(t, "probe_chk")
    /\ UNCHANGED <<hist, serverGen, clientLtime, registry, requested, caches, tables,
                   httpClient, lock>>

\* LookupDeviceID
LookupDeviceID(t, deviceID) ==
    /\ pc[t] = "idle"
    /\ loc' = [loc EXCEPT ![t] =
                 [NoLoc EXCEPT !.op = "LookupDeviceID", !.arg = deviceID,
                               !.jrequest.WurflID = deviceID]]
    /\ Goto(t, "probe_chk")
    /\ UNCHANGED <<hist, serverGen, clientLtime, registry, requested, caches, tables,
                   httpClient, lock>>

\* LookupHeaders: the caller's headers, lower-cased, give the lookup headers
LookupHeaders(t, headers) ==
    /\ pc[t] = "idle"
    /\ \E lowerKeyMap \in LowerKeyMaps(headers) :
          loc' = [loc EXCEPT ![t] =
                    [NoLoc EXCEPT !.op = "LookupHeaders", !.headers = headers,
                                  !.jrequest.LookupHeaders =
                                      CopyLowerHeaders(ImportantHeaders, lowerKeyMap)]]
    /\ Goto(t, "probe_chk")
    /\ UNCHANGED <<hist, serverGen, clientLtime, registry, requested, caches, tables,
                   httpClient, lock>>

\* LookupRequest: request.Header, built by the Add calls adds, gives the lookup headers
LookupRequest(t, adds) ==
    /\ pc[t] = "idle"
    /\ loc' = [loc EXCEPT ![t] =
                 [NoLoc EXCEPT !.op = "LookupRequest", !.header = BuildHeader(adds),
                               !.jrequest.LookupHeaders =
                                   CopyRequestHeaders(ImportantHeaders, BuildHeader(adds))]]
    /\ Goto(t, "probe_chk")
    /\ UNCHANGED <<hist, serverGen, clientLtime, registry, requested, caches, tables,
                   httpClient, lock>>

(* ---- the body shared by the four lookup methods ---- *)

\* a faulty lookup that goes to the server without a look into its cache
ProbeSkipped(t) ==
    /\ pc[t] = "probe_chk"
    /\ Goto(t, "req_caps")
    /\ UNCHANGED <<hist, serverGen, clientLtime, registry, requested, caches, tables,
                   httpClient, lock, loc>>

\* if c.userAgentCache != nil   (c.deviceCache in LookupDeviceID)
ProbeCheck(t) ==
    /\ pc[t] = "probe_chk"
    /\ Goto(t, IF CacheOf(loc[t].op).on THEN "probe_lock" ELSE "req_caps")
    /\ UNCHANGED <<hist, serverGen, clientLtime, registry, requested, caches, tables,
                   httpClient, lock, loc>>

\* c.lruUserAgentCS.Lock()
ProbeLock(t) ==
    /\ pc[t] = "probe_lock"
    /\ Acquire(t, MutexOf(loc[t].op))
    /\ Goto(t, "probe_get")
    /\ UNCHANGED <<hist, serverGen, clientLtime, registry, requested, caches, tables,
                   httpClient, loc>>

\* value, ok := cache.Get(key); Unlock(); if ok { return jdd, nil }
ProbeGet(t) ==
    /\ pc[t] = "probe_get"
    /\ LET l == loc[t]
           c == CacheOf(l.op)
           ok == KeyOf(l) \in lruKeys(c)
       IN  /\ IF l.op \in HeaderLookups
              THEN userAgentCache' = lruGet(c, KeyOf(l)) /\ UNCHANGED deviceCache
              ELSE deviceCache' = lruGet(c, KeyOf(l)) /\ UNCHANGED userAgentCache
           /\ loc' = [loc EXCEPT ![t] =
                        IF ok THEN [l EXCEPT !.ok = TRUE, !.deviceData = lruValue(c, KeyOf(l))]
                        ELSE l]
           /\ Goto(t, IF ok THEN "ret" ELSE "req_caps")
    /\ Release(t, MutexOf(loc[t].op))
    /\ UNCHANGED <<hist, serverGen, clientLtime, registry, requested, tables, httpClient>>

\* jrequest.RequestedCaps = c.requestedStaticCaps
ReadRequestedCaps(t) ==
    /\ pc[t] = "req_caps"
    /\ loc' = [loc EXCEPT ![t].jrequest.RequestedCaps = requestedStaticCaps]
    /\ Goto(t, "req_vcaps")
    /\ UNCHANGED <<hist, serverGen, clientLtime, registry, requested, caches, tables,
                   httpClient, lock>>

\* jrequest.RequestedVCaps = c.requestedVirtualCaps
ReadRequestedVCaps(t) ==
    /\ pc[t] = "req_vcaps"
    /\ loc' = [loc EXCEPT ![t].jrequest.RequestedVCaps = requestedVirtualCaps]
    /\ Goto(t, "net")
    /\ UNCHANGED <<hist, serverGen, clientLtime, registry, requested, caches, tables,
                   httpClient, lock>>

\* internalLookup: the POST and the decoding of its answer.  outcome is what
\* the network and the server make of it, ltime the token the answer carries.
internalLookup(l, outcome, ltime) ==
    CASE outcome \in {"connect", "decode"} ->
            [l EXCEPT !.deviceData = NoData, !.err = outcome]
      [] outcome = "error" ->
            [l EXCEPT !.deviceData = [ServerLookup(l.jrequest, ltime, outcome)
                                        EXCEPT !.Error = ""],
                      !.err = "Received error from WM server"]
      [] outcome = "ok" ->
            [l EXCEPT !.deviceData = ServerLookup(l.jrequest, ltime, outcome),
                      !.ltime = ltime]

\* a faulty lookup that treats an answer with an error message like a good one
NetLookupStored(t, outcomes, ltimes) ==
    /\ pc[t] = "net"
    /\ IF ~httpClient
       THEN Goto(t, "panic") /\ UNCHANGED loc
       ELSE \E outcome \in outcomes, ltime \in ltimes :
               /\ loc' = [loc EXCEPT ![t] = internalLookup(loc[t], outcome, ltime)]
               /\ Goto(t, IF outcome \in {"ok", "error"} THEN "cc" ELSE "ret")
    /\ UNCHANGED <<hist, serverGen, clientLtime, registry, requested, caches, tables,
                   httpClient, lock>>

\* a faulty lookup that checks the token of an answer with an error message
NetLookupTokenTaken(t, outcomes, ltimes) ==
    /\ pc[t] = "net"
    /\ IF ~httpClient
       THEN Goto(t, "panic") /\ UNCHANGED loc
       ELSE \E outcome \in outcomes, ltime \in ltimes :
               /\ loc' = [loc EXCEPT ![t] =
                            [internalLookup(loc[t], outcome, ltime) EXCEPT
                                !.ltime = IF outcome = "error" THEN ltime ELSE @]]
               /\ Goto(t, IF outcome \in {"ok", "error"} THEN "cc" ELSE "ret")
    /\ UNCHANGED <<hist, serverGen, clientLtime, registry, requested, caches, tables,
                   httpClient, lock>>

\* deviceData, err := c.internalLookup(...); a nil c.httpClient panics
NetLookup(t, outcomes, ltimes) ==
    /\ pc[t] = "net"
    /\ IF ~httpClient
       THEN Goto(t, "panic") /\ UNCHANGED loc
       ELSE \E outcome \in outcomes, ltime \in ltimes :
               /\ loc' = [loc EXCEPT ![t] = internalLookup(loc[t], outcome, ltime)]
               /\ Goto(t, IF outcome = "ok" THEN "cc" ELSE "ret")
    /\ UNCHANGED <<hist, serverGen, clientLtime, registry, requested, caches, tables,
                   httpClient, lock>>

(* ---- clearCachesIfNeeded and clearCache ---- *)

\* where a method goes on after clearCachesIfNeeded
AfterCheck(op) == IF op \in Lookups THEN "add_chk" ELSE "ret"

\* where a method goes on after clearCache
AfterClear(op) ==
    CASE op \in Lookups \cup {"GetInfo"} -> AfterCheck(op)
      [] op = "DestroyConnection" -> "destroy"
      [] OTHER -> "ret"

\* a faulty clearCachesIfNeeded that checks the token only when there is a
\* cache
CheckIfCached(t) ==
    /\ pc[t] = "cc"
    /\ LET ltime == loc[t].ltime
       IN  IF userAgentCache.on /\ Len(ltime) > 0 /\ clientLtime # ltime
           THEN /\ clientLtime' = ltime
                /\ loc' = [loc EXCEPT ![t].cleared = TRUE]
                /\ Goto(t, "clear_ua_lock")
           ELSE /\ UNCHANGED <<clientLtime, loc>>
                /\ Goto(t, AfterCheck(loc[t].op))
    /\ UNCHANGED <<hist, serverGen, registry, requested, caches, tables, httpClient, lock>>

\* a faulty clearCachesIfNeeded that takes an empty token for a new one
CheckEmptyToo(t) ==
    /\ pc[t] = "cc"
    /\ LET ltime == loc[t].ltime
       IN  IF clientLtime # ltime
           THEN /\ clientLtime' = ltime
                /\ loc' = [loc EXCEPT ![t].cleared = TRUE]
                /\ Goto(t, "clear_ua_lock")
           ELSE /\ UNCHANGED <<clientLtime, loc>>
                /\ Goto(t, AfterCheck(loc[t].op))
    /\ UNCHANGED <<hist, serverGen, registry, requested, caches, tables, httpClient, lock>>

\* a faulty clearCachesIfNeeded that drops the requested lists with the caches
CheckDropsRequested(t) ==
    /\ pc[t] = "cc"
    /\ LET ltime == loc[t].ltime
       IN  IF Len(ltime) > 0 /\ clientLtime # ltime
           THEN /\ clientLtime' = ltime
                /\ requestedStaticCaps' = <<>> /\ requestedVirtualCaps' = <<>>
                /\ loc' = [loc EXCEPT ![t].cleared = TRUE]
                /\ Goto(t, "clear_ua_lock")
           ELSE /\ UNCHANGED <<clientLtime, loc, requested>>
                /\ Goto(t, AfterCheck(loc[t].op))
    /\ UNCHANGED <<hist, serverGen, registry, caches, tables, httpClient, lock>>

\* if len(ltime) > 0 && c.clientLtime != ltime { c.clientLtime = ltime; c.clearCache() }
clearCachesIfNeeded(t) ==
    /\ pc[t] = "cc"
    /\ LET ltime == loc[t].ltime
       IN  IF Len(ltime) > 0 /\ clientLtime # ltime
           THEN /\ clientLtime' = ltime
                /\ loc' = [loc EXCEPT ![t].cleared = TRUE]
                /\ Goto(t, "clear_ua_lock")
           ELSE /\ UNCHANGED <<clientLtime, loc>>
                /\ Goto(t, AfterCheck(loc[t].op))
    /\ UNCHANGED <<hist, serverGen, registry, requested, caches, tables, httpClient, lock>>

ClearLockUA(t) ==
    /\ pc[t] = "clear_ua_lock"
    /\ Acquire(t, "lruUserAgentCS")
    /\ Goto(t, "clear_ua")
    /\ UNCHANGED <<hist, serverGen, clientLtime, registry, requested, caches, tables,
                   httpClient, loc>>

\* a faulty clearCache that leaves the header cache as it is
ClearUAKept(t) ==
    /\ pc[t] = "clear_ua"
    /\ Release(t, "lruUserAgentCS")
    /\ Goto(t, "clear_dev_lock")
    /\ UNCHANGED <<hist, serverGen, clientLtime, registry, requested, caches, tables,
                   httpClient, loc>>

\* a faulty clearCache that goes on to the device cache with the mutex of the
\* header cache still locked
ClearUAHeld(t) ==
    /\ pc[t] = "clear_ua"
    /\ userAgentCache' = IF userAgentCache.on /\ lruLen(userAgentCache) > 0
                         THEN lruClear(userAgentCache) ELSE userAgentCache
    /\ Goto(t, "clear_dev_lock")
    /\ UNCHANGED <<hist, serverGen, clientLtime, registry, requested, deviceCache, tables,
                   httpClient, lock, loc>>

\* if c.userAgentCache != nil && c.userAgentCache.Len() > 0 { Clear() }; Unlock()
ClearUA(t) ==
    /\ pc[t] = "clear_ua"
    /\ userAgentCache' = IF userAgentCache.on /\ lruLen(userAgentCache) > 0
                         THEN lruClear(userAgentCache) ELSE userAgentCache
    /\ Release(t, "lruUserAgentCS")
    /\ Goto(t, "clear_dev_lock")
    /\ UNCHANGED <<hist, serverGen, clientLtime, registry, requested, deviceCache, tables,
                   httpClient, loc>>

ClearLockDevice(t) ==
    /\ pc[t] = "clear_dev_lock"
    /\ Acquire(t, "lruDeviceCS")
    /\ Goto(t, "clear_dev")
    /\ UNCHANGED <<hist, serverGen, clientLtime, registry, requested, caches, tables,
                   httpClient, loc>>

\* a faulty clearCache that leaves the device-id cache as it is
ClearDeviceKept(t) ==
    /\ pc[t] = "clear_dev"
    /\ Release(t, "lruDeviceCS")
    /\ Goto(t, "clear_mk_lock")
    /\ UNCHANGED <<hist, serverGen, clientLtime, registry, requested, caches, tables,
                   httpClient, loc>>

ClearDevice(t) ==
    /\ pc[t] = "clear_dev"
    /\ deviceCache' = IF deviceCache.on /\ lruLen(deviceCache) > 0
                      THEN lruClear(deviceCache) ELSE deviceCache
    /\ Release(t, "lruDeviceCS")
    /\ Goto(t, "clear_mk_lock")
    /\ UNCHANGED <<hist, serverGen, clientLtime, registry, requested, userAgentCache, tables,
                   httpClient, loc>>

ClearLockMkModels(t) ==
    /\ pc[t] = "clear_mk_lock"
    /\ Acquire(t, "mkMdMutex")
    /\ Goto(t, "clear_mk")
    /\ UNCHANGED <<hist, serverGen, clientLtime, registry, requested, caches, tables,
                   httpClient, loc>>

ClearMkModels(t) ==
    /\ pc[t] = "clear_mk"
    /\ mkModels' = <<>>
    /\ Release(t, "mkMdMutex")
    /\ Goto(t, "clear_makes_lock")
    /\ UNCHANGED <<hist, serverGen, clientLtime, registry, requested, caches, makesTable,
                   osesTable, httpClient, loc>>

ClearLockMakes(t) ==
    /\ pc[t] = "clear_makes_lock"
    /\ Acquire(t, "deviceMakesMutex")
    /\ Goto(t, "clear_makes")
    /\ UNCHANGED <<hist, serverGen, clientLtime, registry, requested, caches, tables,
                   httpClient, loc>>

ClearMakes(t) ==
    /\ pc[t] = "clear_makes"
    /\ deviceMakes' = <<>>
    /\ deviceMakesMap' = {}
    /\ Release(t, "deviceMakesMutex")
    /\ Goto(t, "clear_oses_lock")
    /\ UNCHANGED <<hist, serverGen, clientLtime, registry, requested, caches, mkModels,
                   osesTable, httpClient, loc>>

ClearLockOses(t) ==
    /\ pc[t] = "clear_oses_lock"
    /\ Acquire(t, "deviceOsesMutex")
    /\ Goto(t, "clear_oses")
    /\ UNCHANGED <<hist, serverGen, clientLtime, registry, requested, caches, tables,
                   httpClient, loc>>

\* a faulty clearCache that leaves the table of the operating systems
ClearOsesKept(t) ==
    /\ pc[t] = "clear_oses"
    /\ Release(t, "deviceOsesMutex")
    /\ Goto(t, AfterClear(loc[t].op))
    /\ UNCHANGED <<hist, serverGen, clientLtime, registry, requested, caches, tables,
                   httpClient, loc>>

ClearOses(t) ==
    /\ pc[t] = "clear_oses"
    /\ deviceOses' = <<>>
    /\ deviceOsVerMap' = {}
    /\ Release(t, "deviceOsesMutex")
    /\ Goto(t, AfterClear(loc[t].op))
    /\ UNCHANGED <<hist, serverGen, clientLtime, registry, requested, caches, mkModels,
                   makesTable, httpClient, loc>>

\* the steps of clearCache
clearCache(t) ==
    \/ ClearLockUA(t) \/ ClearUA(t)
    \/ ClearLockDevice(t) \/ ClearDevice(t)
    \/ ClearLockMkModels(t) \/ ClearMkModels(t)
    \/ ClearLockMakes(t) \/ ClearMakes(t)
    \/ ClearLockOses(t) \/ ClearOses(t)

(* ---- the end of a lookup: populate the cache ---- *)

\* if c.userAgentCache != nil
AddCheck(t) ==
    /\ pc[t] = "add_chk"
    /\ Goto(t, IF CacheOf(loc[t].op).on THEN "add_lock" ELSE "ret")
    /\ UNCHANGED <<hist, serverGen, clientLtime, registry, requested, caches, tables,
                   httpClient, lock, loc>>

AddLock(t) ==
    /\ pc[t] = "add_lock"
    /\ Acquire(t, MutexOf(loc[t].op))
    /\ Goto(t, "add")
    /\ UNCHANGED <<hist, serverGen, clientLtime, registry, requested, caches, tables,
                   httpClient, loc>>

\* a faulty lookup that does not store the answer it was given
AddSkipped(t) ==
    /\ pc[t] = "add"
    /\ Release(t, MutexOf(loc[t].op))
    /\ Goto(t, "ret")
    /\ UNCHANGED <<hist, serverGen, clientLtime, registry, requested, caches, tables,
                   httpClient, loc>>

\* a faulty lookup that stores the answer in both caches
AddToBoth(t) ==
    /\ pc[t] = "add"
    /\ userAgentCache' = IF userAgentCache.on
                         THEN lruAdd(userAgentCache, KeyOf(loc[t]), loc[t].deviceData)
                         ELSE userAgentCache
    /\ deviceCache' = IF deviceCache.on
                      THEN lruAdd(deviceCache, KeyOf(loc[t]), loc[t].deviceData)
                      ELSE deviceCache
    /\ Release(t, MutexOf(loc[t].op))
    /\ Goto(t, "ret")
    /\ UNCHANGED <<hist, serverGen, clientLtime, registry, requested, tables, httpClient, loc>>

\* cache.Add(key, deviceData); Unlock()
Add(t) ==
    /\ pc[t] = "add"
    /\ LET l == loc[t]
       IN  IF l.op \in HeaderLookups
           THEN /\ userAgentCache' = lruAdd(userAgentCache, KeyOf(l), l.deviceData)
                /\ UNCHANGED deviceCache
           ELSE /\ deviceCache' = lruAdd(deviceCache, KeyOf(l), l.deviceData)
                /\ UNCHANGED userAgentCache
    /\ Release(t, MutexOf(loc[t].op))
    /\ Goto(t, "ret")
    /\ UNCHANGED <<hist, serverGen, clientLtime, registry, requested, tables, httpClient, loc>>

\* the steps of a lookup method after its call
Lookup(t, outcomes, ltimes) ==
    \/ ProbeCheck(t) \/ ProbeLock(t) \/ ProbeGet(t)
    \/ ReadRequestedCaps(t) \/ ReadRequestedVCaps(t)
    \/ NetLookup(t, outcomes, ltimes)
    \/ clearCachesIfNeeded(t)
    \/ AddCheck(t) \/ AddLock(t) \/ Add(t)

(* ---- SetCacheSize ---- *)

SetCacheSize(t, uaMaxEntries) ==
    /\ pc[t] = "idle"
    /\ loc' = [loc EXCEPT ![t] = [NoLoc EXCEPT !.op = "SetCacheSize", !.size = uaMaxEntries]]
    /\ Goto(t, "size_ua")
    /\ UNCHANGED <<hist, serverGen, clientLtime, registry, requested, caches, tables,
                   httpClient, lock>>

\* a faulty SetCacheSize that makes a header cache with no limit
NewUACacheUnlimited(t) ==
    /\ pc[t] = "size_ua"
    /\ userAgentCache' = lruNew(0)
    /\ Goto(t, "size_dev")
    /\ UNCHANGED <<hist, serverGen, clientLtime, registry, requested, deviceCache, tables,
                   httpClient, lock, loc>>

\* c.userAgentCache = lru.New(uaMaxEntries)
NewUACache(t) ==
    /\ pc[t] = "size_ua"
    /\ userAgentCache' = lruNew(loc[t].size)
    /\ Goto(t, "size_dev")
    /\ UNCHANGED <<hist, serverGen, clientLtime, registry, requested, deviceCache, tables,
                   httpClient, lock, loc>>

\* a faulty SetCacheSize that keeps a device-id cache it finds
NewDeviceCacheOnce(t) ==
    /\ pc[t] = "size_dev"
    /\ deviceCache' = IF deviceCache.on THEN deviceCache ELSE lruNew(deviceDefaultCacheSize)
    /\ Goto(t, "ret")
    /\ UNCHANGED <<hist, serverGen, clientLtime, registry, requested, userAgentCache, tables,
                   httpClient, lock, loc>>

\* c.deviceCache = lru.New(deviceDefaultCacheSize)
NewDeviceCache(t) ==
    /\ pc[t] = "size_dev"
    /\ deviceCache' = lruNew(deviceDefaultCacheSize)
    /\ Goto(t, "ret")
    /\ UNCHANGED <<hist, serverGen, clientLtime, registry, requested, userAgentCache, tables,
                   httpClient, lock, loc>>

(* ---- GetInfo ---- *)

GetInfo(t) ==
    /\ pc[t] = "idle"
    /\ loc' = [loc EXCEPT ![t] = [NoLoc EXCEPT !.op = "GetInfo"]]
    /\ Goto(t, "info_net")
    /\ UNCHANGED <<hist, serverGen, clientLtime, registry, requested, caches, tables,
                   httpClient, lock>>

\* internalGet, json.Unmarshal, checkData; a nil c.httpClient panics
NetInfo(t, outcomes, ltimes) ==
    /\ pc[t] = "info_net"
    /\ IF ~httpClient
       THEN Goto(t, "panic") /\ UNCHANGED loc
       ELSE \E outcome \in outcomes, ltime \in ltimes :
               IF outcome = "ok"
               THEN loc' = [loc EXCEPT ![t].ltime = ltime] /\ Goto(t, "cc")
               ELSE loc' = [loc EXCEPT ![t].err = outcome] /\ Goto(t, "ret")
    /\ UNCHANGED <<hist, serverGen, clientLtime, registry, requested, caches, tables,
                   httpClient, lock>>

(* ---- the requested capabilities ---- *)

SetRequestedStaticCapabilities(t, CapsList) ==
    /\ pc[t] = "idle"
    /\ loc' = [loc EXCEPT ![t] =
                 [NoLoc EXCEPT !.op = "SetRequestedStaticCapabilities", !.CapsList = CapsList]]
    /\ Goto(t, "set_static")
    /\ UNCHANGED <<hist, serverGen, clientLtime, registry, requested, caches, tables,
                   httpClient, lock>>

\* a faulty SetRequestedStaticCapabilities that commits and does not clear
SetStaticUncleared(t) ==
    /\ pc[t] = "set_static"
    /\ LET CapsList == loc[t].CapsList
           capNames == FilterHas(CapsList.names, StaticCaps)
       IN  IF CapsList.nil
           THEN requestedStaticCaps' = <<>>
           ELSE IF Len(capNames) > 0
           THEN requestedStaticCaps' = capNames
           ELSE UNCHANGED requestedStaticCaps
    /\ Goto(t, "ret")
    /\ UNCHANGED <<hist, serverGen, clientLtime, registry, requestedVirtualCaps, caches, tables,
                   httpClient, lock, loc>>

\* a faulty SetRequestedStaticCapabilities that, for a nil list, resets the
\* requested virtual list too
SetStaticResetsVirtual(t) ==
    /\ pc[t] = "set_static"
    /\ LET CapsList == loc[t].CapsList
           capNames == FilterHas(CapsList.names, StaticCaps)
       IN  IF CapsList.nil
           THEN /\ requestedStaticCaps' = <<>> /\ requestedVirtualCaps' = <<>>
                /\ Goto(t, "clear_ua_lock")
           ELSE IF Len(capNames) > 0
           THEN /\ requestedStaticCaps' = capNames /\ UNCHANGED requestedVirtualCaps
                /\ Goto(t, "clear_ua_lock")
           ELSE UNCHANGED requested /\ Goto(t, "ret")
    /\ UNCHANGED <<hist, serverGen, clientLtime, registry, caches, tables,
                   httpClient, lock, loc>>

\* the body of SetRequestedStaticCapabilities up to its call of clearCache
SetStatic(t) ==
    /\ pc[t] = "set_static"
    /\ LET CapsList == loc[t].CapsList
           capNames == FilterHas(CapsList.names, StaticCaps)
       IN  IF CapsList.nil
           THEN requestedStaticCaps' = <<>> /\ Goto(t, "clear_ua_lock")
           ELSE IF Len(capNames) > 0
           THEN requestedStaticCaps' = capNames /\ Goto(t, "clear_ua_lock")
           ELSE UNCHANGED requestedStaticCaps /\ Goto(t, "ret")
    /\ UNCHANGED <<hist, serverGen, clientLtime, registry, requestedVirtualCaps, caches, tables,
                   httpClient, lock, loc>>

SetRequestedVirtualCapabilities(t, CapsList) ==
    /\ pc[t] = "idle"
    /\ loc' = [loc EXCEPT ![t] =
                 [NoLoc EXCEPT !.op = "SetRequestedVirtualCapabilities", !.CapsList = CapsList]]
    /\ Goto(t, "set_virtual")
    /\ UNCHANGED <<hist, serverGen, clientLtime, registry, requested, caches, tables,
                   httpClient, lock>>

\* the body of SetRequestedVirtualCapabilities up to its call of clearCache
SetVirtual(t) ==
    /\ pc[t] = "set_virtual"
    /\ LET CapsList == loc[t].CapsList
           vcapNames == FilterHas(CapsList.names, VirtualCaps)
       IN  IF CapsList.nil
           THEN requestedVirtualCaps' = <<>> /\ Goto(t, "clear_ua_lock")
           ELSE IF Len(vcapNames) > 0
           THEN requestedVirtualCaps' = vcapNames /\ Goto(t, "clear_ua_lock")
           ELSE UNCHANGED requestedVirtualCaps /\ Goto(t, "ret")
    /\ UNCHANGED <<hist, serverGen, clientLtime, registry, requestedStaticCaps, caches, tables,
                   httpClient, lock, loc>>

SetRequestedCapabilities(t, CapsList) ==
    /\ pc[t] = "idle"
    /\ loc' = [loc EXCEPT ![t] =
                 [NoLoc EXCEPT !.op = "SetRequestedCapabilities", !.CapsList = CapsList]]
    /\ Goto(t, "set_both_1")
    /\ UNCHANGED <<hist, serverGen, clientLtime, registry, requested, caches, tables,
                   httpClient, lock>>

\* the first assignment of SetRequestedCapabilities: c.requestedVirtualCaps = nil
\* for a nil CapsList, c.requestedStaticCaps = capNames otherwise
SetBothFirst(t) ==
    /\ pc[t] = "set_both_1"
    /\ LET CapsList == loc[t].CapsList
       IN  IF CapsList.nil
           THEN requestedVirtualCaps' = <<>> /\ UNCHANGED requestedStaticCaps
           ELSE /\ requestedStaticCaps' = FilterHas(CapsList.names, StaticCaps)
                /\ UNCHANGED requestedVirtualCaps
    /\ Goto(t, "set_both_2")
    /\ UNCHANGED <<hist, serverGen, clientLtime, registry, caches, tables, httpClient, lock, loc>>

\* its second assignment: c.requestedStaticCaps = nil for a nil CapsList,
\* c.requestedVirtualCaps = vcapNames otherwise; clearCache follows
SetBothSecond(t) ==
    /\ pc[t] = "set_both_2"
    /\ LET CapsList == loc[t].CapsList
       IN  IF CapsList.nil
           THEN requestedStaticCaps' = <<>> /\ UNCHANGED requestedVirtualCaps
           ELSE /\ requestedVirtualCaps' = FilterElse(CapsList.names, StaticCaps, VirtualCaps)
                /\ UNCHANGED requestedStaticCaps
    /\ Goto(t, "clear_ua_lock")
    /\ UNCHANGED <<hist, serverGen, clientLtime, registry, caches, tables, httpClient, lock, loc>>

(* ---- GetActualCacheSizes ---- *)

GetActualCacheSizes(t) ==
    /\ pc[t] = "idle"
    /\ loc' = [loc EXCEPT ![t] = [NoLoc EXCEPT !.op = "GetActualCacheSizes"]]
    /\ Goto(t, "sizes_dev_lock")
    /\ UNCHANGED <<hist, serverGen, clientLtime, registry, requested, caches, tables,
                   httpClient, lock>>

SizesLockDevice(t) ==
    /\ pc[t] = "sizes_dev_lock"
    /\ Acquire(t, "lruDeviceCS")
    /\ Goto(t, "sizes_dev")
    /\ UNCHANGED <<hist, serverGen, clientLtime, registry, requested, caches, tables,
                   httpClient, loc>>

\* if c.deviceCache != nil { dSize = c.deviceCache.Len() }; Unlock()
SizesDevice(t) ==
    /\ pc[t] = "sizes_dev"
    /\ loc' = [loc EXCEPT ![t].dSize = IF deviceCache.on THEN lruLen(deviceCache) ELSE 0]
    /\ Release(t, "lruDeviceCS")
    /\ Goto(t, "sizes_ua_lock")
    /\ UNCHANGED <<hist, serverGen, clientLtime, registry, requested, caches, tables, httpClient>>

SizesLockUA(t) ==
    /\ pc[t] = "sizes_ua_lock"
    /\ Acquire(t, "lruUserAgentCS")
    /\ Goto(t, "sizes_ua")
    /\ UNCHANGED <<hist, serverGen, clientLtime, registry, requested, caches, tables,
                   httpClient, loc>>

\* if c.userAgentCache != nil { uaSize = c.userAgentCache.Len() }; Unlock()
SizesUA(t) ==
    /\ pc[t] = "sizes_ua"
    /\ loc' = [loc EXCEPT ![t].uaSize = IF userAgentCache.on THEN lruLen(userAgentCache) ELSE 0]
    /\ Release(t, "lruUserAgentCS")
    /\ Goto(t, "ret")
    /\ UNCHANGED <<hist, serverGen, clientLtime, registry, requested, caches, tables, httpClient>>

Sizes(t) == SizesLockDevice(t) \/ SizesDevice(t) \/ SizesLockUA(t) \/ SizesUA(t)

(* ---- DestroyConnection ---- *)

\* c.clearCache() comes first
DestroyConnection(t) ==
    /\ pc[t] = "idle"
    /\ loc' = [loc EXCEPT ![t] = [NoLoc EXCEPT !.op = "DestroyConnection"]]
    /\ Goto(t, "clear_ua_lock")
    /\ UNCHANGED <<hist, serverGen, clientLtime, registry, requested, caches, tables,
                   httpClient, lock>>

\* c.mkModels = nil; c.httpClient = nil
Destroy(t) ==
    /\ pc[t] = "destroy"
    /\ mkModels' = <<>>
    /\ httpClient' = FALSE
    /\ Goto(t, "ret")
    /\ UNCHANGED <<hist, serverGen, clientLtime, registry, requested, caches, makesTable,
                   osesTable, lock, loc>>

(* ---- the auxiliary tables ---- *)

OsOps == {"GetAllOSes", "GetAllVersionsForOS"}

MakeOps == {"GetAllDeviceMakes", "GetAllDevicesForMake"}

TableMutex(op) == IF op \in OsOps THEN "deviceOsesMutex" ELSE "deviceMakesMutex"

\* c.deviceOses or c.deviceMakes, c.deviceOsVerMap or c.deviceMakesMap
TableKeys(op) == IF op \in OsOps THEN deviceOses ELSE deviceMakes

TableMap(op) == IF op \in OsOps THEN deviceOsVerMap ELSE deviceMakesMap

\* all four methods start with loadDeviceOsesData or loadDeviceMakesData
GetAllOSes(t) ==
    /\ pc[t] = "idle"
    /\ loc' = [loc EXCEPT ![t] = [NoLoc EXCEPT !.op = "GetAllOSes"]]
    /\ Goto(t, "load_lock")
    /\ UNCHANGED <<hist, serverGen, clientLtime, registry, requested, caches, tables,
                   httpClient, lock>>

GetAllVersionsForOS(t, osName) ==
    /\ pc[t] = "idle"
    /\ loc' = [loc EXCEPT ![t] = [NoLoc EXCEPT !.op = "GetAllVersionsForOS", !.arg = osName]]
    /\ Goto(t, "load_lock")
    /\ UNCHANGED <<hist, serverGen, clientLtime, registry, requested, caches, tables,
                   httpClient, lock>>

GetAllDeviceMakes(t) ==
    /\ pc[t] = "idle"
    /\ loc' = [loc EXCEPT ![t] = [NoLoc EXCEPT !.op = "GetAllDeviceMakes"]]
    /\ Goto(t, "load_lock")
    /\ UNCHANGED <<hist, serverGen, clientLtime, registry, requested, caches, tables,
                   httpClient, lock>>

GetAllDevicesForMake(t, brandName) ==
    /\ pc[t] = "idle"
    /\ loc' = [loc EXCEPT ![t] = [NoLoc EXCEPT !.op = "GetAllDevicesForMake", !.arg = brandName]]
    /\ Goto(t, "load_lock")
    /\ UNCHANGED <<hist, serverGen, clientLtime, registry, requested, caches, tables,
                   httpClient, lock>>

\* load...Data: c.deviceOsesMutex.Lock()
LoadLock(t) ==
    /\ pc[t] = "load_lock"
    /\ Acquire(t, TableMutex(loc[t].op))
    /\ Goto(t, "load_chk")
    /\ UNCHANGED <<hist, serverGen, clientLtime, registry, requested, caches, tables,
                   httpClient, loc>>

\* a faulty load...Data that keeps the mutex while it fetches the listing
LoadCheckHeld(t) ==
    /\ pc[t] = "load_chk"
    /\ IF Len(TableKeys(loc[t].op)) > 0
       THEN Release(t, TableMutex(loc[t].op)) /\ Goto(t, "loaded")
       ELSE UNCHANGED lock /\ Goto(t, "load_net")
    /\ UNCHANGED <<hist, serverGen, clientLtime, registry, requested, caches, tables,
                   httpClient, loc>>

\* a faulty load...Data that fetches the listing whether or not it has one
LoadCheckAlways(t) ==
    /\ pc[t] = "load_chk"
    /\ Release(t, TableMutex(loc[t].op))
    /\ Goto(t, "load_net")
    /\ UNCHANGED <<hist, serverGen, clientLtime, registry, requested, caches, tables,
                   httpClient, loc>>

\* if c.deviceOses != nil && len(c.deviceOses) > 0 { return nil }; Unlock()
LoadCheck(t) ==
    /\ pc[t] = "load_chk"
    /\ Release(t, TableMutex(loc[t].op))
    /\ Goto(t, IF Len(TableKeys(loc[t].op)) > 0 THEN "loaded" ELSE "load_net")
    /\ UNCHANGED <<hist, serverGen, clientLtime, registry, requested, caches, tables,
                   httpClient, loc>>

\* internalGet, json.Unmarshal and the loop that builds the table
LoadNet(t, outcomes) ==
    /\ pc[t] = "load_net"
    /\ IF ~httpClient
       THEN Goto(t, "panic") /\ UNCHANGED loc
       ELSE \E outcome \in outcomes :
               IF outcome = "ok"
               THEN LET built == IF loc[t].op \in OsOps
                                 THEN BuildOses(OsListing(serverGen), Len(OsListing(serverGen)))
                                 ELSE BuildMakes(MakeListing(serverGen),
                                                 Len(MakeListing(serverGen)))
                    IN  /\ loc' = [loc EXCEPT ![t].keys = built.keys, ![t].map = built.map,
                                           ![t].fetch = outcome]
                        /\ Goto(t, "load_put_lock")
               ELSE /\ loc' = [loc EXCEPT ![t].err = outcome, ![t].fetch = outcome]
                    /\ Goto(t, "loaded")
    /\ UNCHANGED <<hist, serverGen, clientLtime, registry, requested, caches, tables,
                   httpClient, lock>>

LoadPutLock(t) ==
    /\ pc[t] = "load_put_lock"
    /\ Acquire(t, TableMutex(loc[t].op))
    /\ Goto(t, "load_put")
    /\ UNCHANGED <<hist, serverGen, clientLtime, registry, requested, caches, tables,
                   httpClient, loc>>

\* a faulty load that stores the key list and leaves the map as it was
LoadPutKeysOnly(t) ==
    /\ pc[t] = "load_put"
    /\ IF loc[t].op \in OsOps
       THEN /\ deviceOses' = loc[t].keys
            /\ UNCHANGED <<deviceOsVerMap, mkModels, makesTable>>
       ELSE /\ deviceMakes' = loc[t].keys
            /\ UNCHANGED <<deviceMakesMap, mkModels, osesTable>>
    /\ Release(t, TableMutex(loc[t].op))
    /\ Goto(t, "loaded")
    /\ UNCHANGED <<hist, serverGen, clientLtime, registry, requested, caches, httpClient, loc>>

\* c.deviceOsVerMap = ovMap; c.deviceOses = ov; Unlock(); return nil
LoadPut(t) ==
    /\ pc[t] = "load_put"
    /\ IF loc[t].op \in OsOps
       THEN /\ deviceOsVerMap' = loc[t].map
            /\ deviceOses' = loc[t].keys
            /\ UNCHANGED <<mkModels, makesTable>>
       ELSE /\ deviceMakesMap' = loc[t].map
            /\ deviceMakes' = loc[t].keys
            /\ UNCHANGED <<mkModels, osesTable>>
    /\ Release(t, TableMutex(loc[t].op))
    /\ Goto(t, "loaded")
    /\ UNCHANGED <<hist, serverGen, clientLtime, registry, requested, caches, httpClient, loc>>

\* back in GetAll...: if err != nil && len(c.deviceOses) > 0 { return nil, err }
\* (the && reads the table, without its mutex, only when err != nil); the
\* methods that go on return a nil error or their own
Loaded(t) ==
    /\ pc[t] = "loaded"
    /\ LET l == loc[t]
       IN  IF l.err # "" /\ Len(TableKeys(l.op)) > 0
           THEN UNCHANGED loc /\ Goto(t, "ret")
           ELSE /\ loc' = [loc EXCEPT ![t].err = ""]
                /\ Goto(t, IF l.op = "GetAllDeviceMakes" THEN "get_makes" ELSE "get_lock")
    /\ UNCHANGED <<hist, serverGen, clientLtime, registry, requested, caches, tables,
                   httpClient, lock>>

\* GetAllDeviceMakes: return c.deviceMakes, nil
GetMakes(t) ==
    /\ pc[t] = "get_makes"
    /\ loc' = [loc EXCEPT ![t].retVal = deviceMakes]
    /\ Goto(t, "ret")
    /\ UNCHANGED <<hist, serverGen, clientLtime, registry, requested, caches, tables,
                   httpClient, lock>>

GetLock(t) ==
    /\ pc[t] = "get_lock"
    /\ Acquire(t, TableMutex(loc[t].op))
    /\ Goto(t, "get")
    /\ UNCHANGED <<hist, serverGen, clientLtime, registry, requested, caches, tables,
                   httpClient, loc>>

\* a faulty GetAll...For... that returns no error for a name it does not know
GetUnknownAsEmpty(t) ==
    /\ pc[t] = "get"
    /\ LET l == loc[t]
           found == l.arg \in MapKeys(TableMap(l.op))
           val == (CHOOSE p \in TableMap(l.op) : p[1] = l.arg)[2]
       IN  loc' = [loc EXCEPT ![t] =
                CASE l.op = "GetAllOSes" -> [l EXCEPT !.retVal = deviceOses]
                  [] l.op = "GetAllVersionsForOS" /\ found -> [l EXCEPT !.retVal = NonEmpty(val)]
                  [] l.op = "GetAllDevicesForMake" /\ found -> [l EXCEPT !.retVal = val]
                  [] OTHER -> l]
    /\ Release(t, TableMutex(loc[t].op))
    /\ Goto(t, "ret")
    /\ UNCHANGED <<hist, serverGen, clientLtime, registry, requested, caches, tables, httpClient>>

\* a faulty GetAll...For... that returns "does not exist" with the mutex held
GetHeld(t) ==
    /\ pc[t] = "get"
    /\ LET l == loc[t]
           found == l.arg \in MapKeys(TableMap(l.op))
           val == (CHOOSE p \in TableMap(l.op) : p[1] = l.arg)[2]
       IN  /\ loc' = [loc EXCEPT ![t] =
                CASE l.op = "GetAllOSes" -> [l EXCEPT !.retVal = deviceOses]
                  [] l.op = "GetAllVersionsForOS" /\ found -> [l EXCEPT !.retVal = NonEmpty(val)]
                  [] l.op = "GetAllDevicesForMake" /\ found -> [l EXCEPT !.retVal = val]
                  [] OTHER -> [l EXCEPT !.err = "does not exist"]]
           /\ IF l.op = "GetAllOSes" \/ found
              THEN Release(t, TableMutex(l.op))
              ELSE UNCHANGED lock
    /\ Goto(t, "ret")
    /\ UNCHANGED <<hist, serverGen, clientLtime, registry, requested, caches, tables, httpClient>>

\* GetAllOSes: retVal := c.deviceOses; Unlock().  GetAllVersionsForOS and
\* GetAllDevicesForMake: if val, ok := map[key]; ok { Unlock(); return the
\* values, nil }; Unlock(); return nil, errors.New("... does not exist")
Get(t) ==
    /\ pc[t] = "get"
    /\ LET l == loc[t]
           found == l.arg \in MapKeys(TableMap(l.op))
           val == (CHOOSE p \in TableMap(l.op) : p[1] = l.arg)[2]
       IN  loc' = [loc EXCEPT ![t] =
                CASE l.op = "GetAllOSes" -> [l EXCEPT !.retVal = deviceOses]
                  [] l.op = "GetAllVersionsForOS" /\ found -> [l EXCEPT !.retVal = NonEmpty(val)]
                  [] l.op = "GetAllDevicesForMake" /\ found -> [l EXCEPT !.retVal = val]
                  [] OTHER -> [l EXCEPT !.err = "does not exist"]]
    /\ Release(t, TableMutex(loc[t].op))
    /\ Goto(t, "ret")
    /\ UNCHANGED <<hist, serverGen, clientLtime, registry, requested, caches, tables, httpClient>>

\* the steps of the four GetAll... methods after their call
Table(t, outcomes) ==
    \/ LoadLock(t) \/ LoadCheck(t) \/ LoadNet(t, outcomes)
    \/ LoadPutLock(t) \/ LoadPut(t)
    \/ Loaded(t) \/ GetMakes(t) \/ GetLock(t) \/ Get(t)

(* ---- the return of a method, and the server ---- *)

\* the method returns to its caller: loc[t] held its results
Return(t) ==
    /\ pc[t] = "ret"
    /\ loc' = [loc EXCEPT ![t] = NoLoc]
    /\ Goto(t, "idle")
    /\ UNCHANGED <<hist, serverGen, clientLtime, registry, requested, caches, tables,
                   httpClient, lock>>

\* the sizes GetActualCacheSizes reports when no goroutine is inside a method
dSizeNow == IF deviceCache.on THEN lruLen(deviceCache) ELSE 0

uaSizeNow == IF userAgentCache.on THEN lruLen(userAgentCache) ELSE 0

\* a call returns to a caller that writes down what it was given, whether the
\* call went to the server, and the cache sizes it then reads
ReturnObserved(t) ==
    /\ pc[t] = "ret"
    /\ hist' = Append(hist, [key |-> KeyOf(loc[t]), dSize |-> dSizeNow,
                             uaSize |-> uaSizeNow, call |-> loc[t]])
    /\ loc' = [loc EXCEPT ![t] = NoLoc]
    /\ Goto(t, "idle")
    /\ UNCHANGED <<serverGen, clientLtime, registry, requested, caches, tables,
                   httpClient, lock>>

\* the server reloads its data: its token changes
ServerReload ==
    /\ serverGen <= MaxReloads
    /\ serverGen' = serverGen + 1
    /\ UNCHANGED <<hist, clientLtime, registry, requested, caches, tables, httpClient,
                   lock, pc, loc>>

(***************************************************************************)
(* Create and the registry of capability names.                            *)
(***************************************************************************)
\* no client yet: the fields of a new WmClient{}
Uncreated ==
    /\ serverGen = 1
    /\ clientLtime = ""
    /\ StaticCaps = <<>> /\ VirtualCaps = <<>> /\ ImportantHeaders = <<>>
    /\ requestedStaticCaps = <<>> /\ requestedVirtualCaps = <<>>
    /\ userAgentCache = NoCache /\ deviceCache = NoCache
    /\ mkModels = <<>>
    /\ deviceMakes = <<>> /\ deviceMakesMap = {}
    /\ deviceOses = <<>> /\ deviceOsVerMap = {}
    /\ httpClient = FALSE
    /\ lock = [l \in LockNames |-> ""]
    /\ pc = [t \in Threads |-> "idle"]
    /\ loc = [t \in Threads |-> NoLoc]
    /\ hist = <<>>

\* the schemes the transport of net/http knows
SupportedSchemes == {"http", "https"}

\* the hosts on which a WM server answers
ReachableHosts == {"localhost"}

\* checkData, for an answer that has its version fields
checkData(data) == Len(data.StaticCaps) > 0 \/ Len(data.VirtualCaps) > 0

\* Create, up to its call of GetInfo
Create(t, Scheme, Host) ==
    /\ pc[t] = "idle" /\ hist = <<>>
    /\ loc' = [loc EXCEPT ![t] =
                 [NoLoc EXCEPT !.op = "Create", !.arg = Scheme, !.Host = Host,
                               !.scheme = IF Len(Scheme) > 0 THEN Scheme ELSE "http"]]
    /\ httpClient' = TRUE
    /\ Goto(t, "create_info")
    /\ UNCHANGED <<hist, serverGen, clientLtime, registry, requested, caches, tables, lock>>

\* a faulty Create that returns the client whatever became of GetInfo
CreateInfoPartial(t, answers) ==
    /\ pc[t] = "create_info"
    /\ LET l == loc[t]
       IN  /\ loc' = [loc EXCEPT ![t] = [l EXCEPT !.err = "connect", !.client = TRUE]]
           /\ UNCHANGED <<clientLtime, registry>>
    /\ Goto(t, "ret")
    /\ UNCHANGED <<hist, serverGen, requested, caches, tables, httpClient, lock>>

\* a faulty Create that keeps the registry in the order it received it
CreateInfoUnsorted(t, answers) ==
    /\ pc[t] = "create_info"
    /\ LET l == loc[t]
           failed(err) ==
               /\ loc' = [loc EXCEPT ![t] = [l EXCEPT !.err = err]]
               /\ UNCHANGED <<clientLtime, registry>>
       IN  IF l.scheme \notin SupportedSchemes THEN failed("unsupported protocol scheme")
           ELSE IF l.Host \notin ReachableHosts THEN failed("connect")
           ELSE \E data \in answers :
                   IF ~checkData(data)
                   THEN failed("server returned empty data or a wrong json format")
                   ELSE /\ clientLtime' = Ltimes[serverGen]
                        /\ ImportantHeaders' = data.ImportantHeaders
                        /\ StaticCaps' = data.StaticCaps
                        /\ VirtualCaps' = data.VirtualCaps
                        /\ loc' = [loc EXCEPT ![t] = [l EXCEPT !.info = data, !.client = TRUE]]
    /\ Goto(t, "ret")
    /\ UNCHANGED <<hist, serverGen, requested, caches, tables, httpClient, lock>>

\* data, err := client.GetInfo(): the GET fails for a scheme the transport
\* does not know and for a host that does not answer, GetInfo for an answer
\* that checkData rejects; otherwise GetInfo stores the token and Create the
\* registry, sorted
CreateInfo(t, answers) ==
    /\ pc[t] = "create_info"
    /\ LET l == loc[t]
           failed(err) ==
               /\ loc' = [loc EXCEPT ![t] = [l EXCEPT !.err = err]]
               /\ UNCHANGED <<clientLtime, registry>>
       IN  IF l.scheme \notin SupportedSchemes THEN failed("unsupported protocol scheme")
           ELSE IF l.Host \notin ReachableHosts THEN failed("connect")
           ELSE \E data \in answers :
                   IF ~checkData(data)
                   THEN failed("server returned empty data or a wrong json format")
                   ELSE /\ clientLtime' = Ltimes[serverGen]
                        /\ ImportantHeaders' = data.ImportantHeaders
                        /\ StaticCaps' = SortStrings(data.StaticCaps)
                        /\ VirtualCaps' = SortStrings(data.VirtualCaps)
                        /\ loc' = [loc EXCEPT ![t] = [l EXCEPT !.info = data, !.client = TRUE]]
    /\ Goto(t, "ret")
    /\ UNCHANGED <<hist, serverGen, requested, caches, tables, httpClient, lock>>

HasStaticCapability(t, CapName) ==
    /\ pc[t] = "idle"
    /\ loc' = [loc EXCEPT ![t] =
                 [NoLoc EXCEPT !.op = "HasStaticCapability", !.arg = CapName,
                               !.has = sliceHasValue(StaticCaps, CapName)]]
    /\ Goto(t, "ret")
    /\ UNCHANGED <<hist, serverGen, clientLtime, registry, requested, caches, tables,
                   httpClient, lock>>

HasVirtualCapability(t, CapName) ==
    /\ pc[t] = "idle"
    /\ loc' = [loc EXCEPT ![t] =
                 [NoLoc EXCEPT !.op = "HasVirtualCapability", !.arg = CapName,
                               !.has = sliceHasValue(VirtualCaps, CapName)]]
    /\ Goto(t, "ret")
    /\ UNCHANGED <<hist, serverGen, clientLtime, registry, requested, caches, tables,
                   httpClient, lock>>

(***************************************************************************)
(* Specifications.                                                         *)
(***************************************************************************)
\* the token an answer of the server carries
CurrentLtime == {Ltimes[serverGen]}

\* Two goroutines share a client with caches: lookups by user agent and by
\* device id, GetInfo, a change of the requested capabilities and
\* GetActualCacheSizes, while the server may reload its data.  The network
\* works and the server answers every request.
Next ==
    \/ \E t \in Threads :
          \/ LookupUserAgent(t, "a")
          \/ LookupDeviceID(t, "d")
          \/ Lookup(t, {"ok"}, CurrentLtime)
          \/ clearCache(t)
          \/ GetInfo(t)
          \/ NetInfo(t, {"ok"}, CurrentLtime)
          \/ SetRequestedStaticCapabilities(t, [names |-> <<"brand_name">>, nil |-> FALSE])
          \/ SetStatic(t)
          \/ GetActualCacheSizes(t)
          \/ Sizes(t)
          \/ Return(t)
    \/ ServerReload

Spec == InitCached /\ [][Next]_vars

\* the token of an answer, or none when the server leaves the field out
AnyLtime == {Ltimes[serverGen], ""}

\* the arguments the single caller below passes
UserAgents == {"a", "b"}

DeviceIDs == {"d"}

HeaderMaps ==
    {{<<"user-agent", "a">>, <<"Accept-Encoding", "gzip">>},
     {<<"User-Agent", "">>, <<"user-agent", "a">>}}

HeaderAdds ==
    {<<<<"x-ucbrowser-device-ua", "b">>, <<"User-Agent", "">>, <<"user-agent", "a">>>>}

CapsLists ==
    {NoList}
    \cup {[names |-> n, nil |-> FALSE] :
             n \in {<<"invalid_name1">>, <<"brand_name", "invalid_name1", "is_ios">>}}

\* One goroutine calls the methods of a client that Create returned, one call
\* after the other: the four lookups, GetInfo, the three setters of the
\* requested capabilities, SetCacheSize, GetActualCacheSizes, the loads of
\* both tables and DestroyConnection.  A lookup can be answered with an error message, fail to
\* connect or get an answer that cannot be decoded, and an answer can come
\* without a token.
SeqNext(t) ==
    \/ \E userAgent \in UserAgents : LookupUserAgent(t, userAgent)
    \/ \E deviceID \in DeviceIDs : LookupDeviceID(t, deviceID)
    \/ \E headers \in HeaderMaps : LookupHeaders(t, headers)
    \/ \E adds \in HeaderAdds : LookupRequest(t, adds)
    \/ Lookup(t, {"ok", "error", "connect", "decode"}, AnyLtime)
    \/ clearCache(t)
    \/ GetInfo(t)
    \/ NetInfo(t, {"ok"}, AnyLtime)
    \/ \E CapsList \in CapsLists :
          \/ SetRequestedStaticCapabilities(t, CapsList)
          \/ SetRequestedVirtualCapabilities(t, CapsList)
          \/ SetRequestedCapabilities(t, CapsList)
    \/ SetStatic(t) \/ SetVirtual(t) \/ SetBothFirst(t) \/ SetBothSecond(t)
    \/ \E uaMaxEntries \in CacheSizes : SetCacheSize(t, uaMaxEntries)
    \/ NewUACache(t) \/ NewDeviceCache(t)
    \/ GetActualCacheSizes(t)
    \/ Sizes(t)
    \/ GetAllOSes(t)
    \/ GetAllDeviceMakes(t)
    \/ Table(t, {"ok"})
    \/ DestroyConnection(t)
    \/ Destroy(t)
    \/ Return(t)
    \/ ServerReload

SeqSpec == Init /\ [][SeqNext("t1")]_vars

\* One goroutine makes up to MaxCalls lookups on a client with caches and
\* writes down what each returned, while the server may reload its data.
HistNext(t) ==
    \/ Len(hist) < MaxCalls /\ LookupUserAgent(t, "a")
    \/ \E deviceID \in DeviceIDs :
          Len(hist) < MaxCalls /\ LookupDeviceID(t, deviceID)
    \/ \E headers \in HeaderMaps :
          Len(hist) < MaxCalls /\ LookupHeaders(t, headers)
    \/ \E adds \in HeaderAdds :
          Len(hist) < MaxCalls /\ LookupRequest(t, adds)
    \/ Lookup(t, {"ok", "error"}, AnyLtime)
    \/ clearCache(t)
    \/ ReturnObserved(t)
    \/ ServerReload

HistSpec == InitCached /\ [][HistNext("t1")]_vars
\* the header maps and the requests of a caller of the header lookups: the
\* same headers under other spellings, in another order and with a header
\* that is not important, a user agent that is the two values of another
\* request put together, and a header that is given twice
ManyHeaderMaps ==
    {{<<"User-Agent", "a">>, <<"Accept-Encoding", "gzip">>},
     {<<"user-agent", "a">>},
     {<<"USER-AGENT", "a">>, <<"X-UCBrowser-Device-UA", "b">>},
     {<<"User-Agent", "ab">>},
     {<<"User-Agent", "a">>, <<"user-agent", "b">>},
     {<<"USER-AGENT", "a">>, <<"user-agent", "b">>}}

ManyHeaderAdds ==
    {<<<<"x-ucbrowser-device-ua", "b">>, <<"User-Agent", "a">>>>,
     <<<<"user-agent", "a">>, <<"Accept-Encoding", "gzip">>>>,
     <<<<"User-Agent", "ab">>>>,
     <<<<"User-Agent", "a">>, <<"user-agent", "b">>>>,
     <<<<"user-agent", "b">>, <<"User-Agent", "a">>>>}

\* One goroutine makes up to MaxCalls header lookups on a client with caches
\* and writes down what each returned; the server does not reload.
HdrNext(t) ==
    \/ \E headers \in ManyHeaderMaps :
          Len(hist) < MaxCalls /\ LookupHeaders(t, headers)
    \/ \E adds \in ManyHeaderAdds :
          Len(hist) < MaxCalls /\ LookupRequest(t, adds)
    \/ Lookup(t, {"ok"}, CurrentLtime)
    \/ ReturnObserved(t)

HdrSpec == InitCached /\ [][HdrNext("t1")]_vars

\* what can go wrong with the fetch of a listing
Failures == {"connect", "decode"}

\* the arguments of GetAllVersionsForOS and GetAllDevicesForMake: names the
\* server lists, one it lists after a reload only, and names it never lists
OsNames == {"Android", "Bada", "Symbian"}

BrandNames == {"Nokia", "Sony"}

\* One goroutine makes up to MaxCalls calls on a client that Create returned
\* and writes down what each returned: the four methods of the listings,
\* whose fetch can fail, and what empties the tables: GetInfo, a setter of
\* the requested capabilities and DestroyConnection.  The server may reload
\* its data.
TblNext(t) ==
    \/ Len(hist) < MaxCalls /\ GetAllOSes(t)
    \/ \E osName \in OsNames : Len(hist) < MaxCalls /\ GetAllVersionsForOS(t, osName)
    \/ Len(hist) < MaxCalls /\ GetAllDeviceMakes(t)
    \/ \E brandName \in BrandNames :
          Len(hist) < MaxCalls /\ GetAllDevicesForMake(t, brandName)
    \/ Table(t, {"ok"} \cup Failures)
    \/ Len(hist) < MaxCalls /\ GetInfo(t)
    \/ NetInfo(t, {"ok"}, CurrentLtime)
    \/ clearCachesIfNeeded(t)
    \/ clearCache(t)
    \/ Len(hist) < MaxCalls
          /\ SetRequestedStaticCapabilities(t, [names |-> <<"brand_name">>, nil |-> FALSE])
    \/ SetStatic(t)
    \/ Len(hist) < MaxCalls /\ DestroyConnection(t)
    \/ Destroy(t)
    \/ ReturnObserved(t)
    \/ ServerReload

TblSpec == Init /\ [][TblNext("t1")]_vars

\* the lists TestSetRequestedCapabilities passes to the setters: a name of
\* the list, a name the server does not know and a name of the other list
StaticList == <<"brand_name", "invalid_name1", "is_ios">>

VirtualList == <<"is_ios", "invalid_name2", "brand_name">>

TestLists ==
    {NoList, [names |-> StaticList, nil |-> FALSE], [names |-> VirtualList, nil |-> FALSE]}

\* One goroutine makes up to MaxCalls calls on a client with caches and
\* writes down what each returned: it sets the requested static and virtual
\* capabilities and looks a user agent up.
CapNext(t) ==
    \/ \E CapsList \in TestLists :
          Len(hist) < MaxCalls /\ SetRequestedStaticCapabilities(t, CapsList)
    \/ \E CapsList \in TestLists :
          Len(hist) < MaxCalls /\ SetRequestedVirtualCapabilities(t, CapsList)
    \/ SetStatic(t) \/ SetVirtual(t)
    \/ clearCache(t)
    \/ Len(hist) < MaxCalls /\ LookupUserAgent(t, "a")
    \/ Lookup(t, {"ok"}, CurrentLtime)
    \/ ReturnObserved(t)

CapSpec == InitCached /\ [][CapNext("t1")]_vars

\* the sizes SetCacheSize is passed: lru.New takes 0 for a cache with no limit
AnyCacheSizes == {0, 1, 2}

\* the client after Create, or after Create and a SetCacheSize
InitAnyCache ==
    /\ Created
    /\ \/ userAgentCache = NoCache /\ deviceCache = NoCache
       \/ \E uaMaxEntries \in AnyCacheSizes :
             /\ userAgentCache = lruNew(uaMaxEntries)
             /\ deviceCache = lruNew(deviceDefaultCacheSize)

\* One goroutine makes up to MaxCalls calls and writes down what each
\* returned: SetCacheSize, lookups of user agents and device ids, the empty
\* ones among them, and of a header map with no header, GetAllOSes and
\* DestroyConnection.  The server may answer a lookup with an error message.
CfgNext(t) ==
    \/ \E uaMaxEntries \in AnyCacheSizes :
          Len(hist) < MaxCalls /\ SetCacheSize(t, uaMaxEntries)
    \/ NewUACache(t) \/ NewDeviceCache(t)
    \/ \E userAgent \in {"", "a", "b"} :
          Len(hist) < MaxCalls /\ LookupUserAgent(t, userAgent)
    \/ \E deviceID \in {"", "d"} :
          Len(hist) < MaxCalls /\ LookupDeviceID(t, deviceID)
    \/ Len(hist) < MaxCalls /\ LookupHeaders(t, {})
    \/ Lookup(t, {"ok", "error"}, CurrentLtime)
    \/ Len(hist) < MaxCalls /\ GetAllOSes(t)
    \/ LoadLock(t) \/ LoadCheck(t) \/ LoadNet(t, {"ok"}) \/ LoadPutLock(t) \/ LoadPut(t)
    \/ Loaded(t) \/ GetLock(t) \/ Get(t)
    \/ Len(hist) < MaxCalls /\ DestroyConnection(t)
    \/ clearCache(t)
    \/ Destroy(t)
    \/ ReturnObserved(t)

CfgSpec == InitAnyCache /\ [][CfgNext("t1")]_vars

\* the schemes passed to Create: none, one of the transport and another one
Schemes == {"", "http", "smtp"}

\* the answers of the server to /v2/getinfo/json: with both lists, with one
\* of them, with none, and with a name that is in both; with the important
\* headers as the server sends them, with the user-agent header in small
\* letters and without it
InfoAnswers ==
    {[StaticCaps |-> s, VirtualCaps |-> v, ImportantHeaders |-> h] :
        s \in {<<>>, ServerInfo.StaticCaps},
        v \in {<<>>, ServerInfo.VirtualCaps, <<"is_ios", "brand_name">>},
        h \in {ServerInfo.ImportantHeaders,
               <<"user-agent", "X-UCBrowser-Device-UA">>,
               <<"X-UCBrowser-Device-UA">>}}

\* the names the caller asks for
CapNames == SeqToSet(NameOrder)

\* One goroutine calls Create and, on the client it returned, up to MaxCalls
\* times HasStaticCapability or HasVirtualCapability, and writes down what
\* each call returned.
CreateNext(t) ==
    \/ \E Scheme \in Schemes, Host \in ReachableHosts \cup {"serverdown"} :
          Create(t, Scheme, Host)
    \/ CreateInfo(t, InfoAnswers)
    \/ \E CapName \in CapNames :
          /\ Len(hist) \in 1..MaxCalls /\ hist[1].call.client
          /\ HasStaticCapability(t, CapName)
    \/ \E CapName \in CapNames :
          /\ Len(hist) \in 1..MaxCalls /\ hist[1].call.client
          /\ HasVirtualCapability(t, CapName)
    \/ ReturnObserved(t)

CreateSpec == Uncreated /\ [][CreateNext("t1")]_vars

\* A goroutine on a client with caches: lookups on either cache that hit or
\* miss, with a server that answers with a device or with an error, a
\* change of the requested capabilities, which clears, GetAllVersionsForOS
\* for a name the server lists and for one it does not, and
\* GetActualCacheSizes.
FairNext(t) ==
    \/ LookupUserAgent(t, "a")
    \/ LookupDeviceID(t, "d")
    \/ Lookup(t, {"ok", "error"}, CurrentLtime)
    \/ clearCache(t)
    \/ SetRequestedStaticCapabilities(t, [names |-> <<"brand_name">>, nil |-> FALSE])
    \/ SetStatic(t)
    \/ \E osName \in {"Android", "Symbian"} : GetAllVersionsForOS(t, osName)
    \/ LoadLock(t) \/ LoadCheck(t) \/ LoadNet(t, {"ok"}) \/ LoadPutLock(t) \/ LoadPut(t)
    \/ Loaded(t) \/ GetLock(t) \/ Get(t)
    \/ GetActualCacheSizes(t)
    \/ Sizes(t)
    \/ Return(t)

\* Two such goroutines.  A goroutine inside a method goes on: the scheduler
\* of Go runs every goroutine that can run, and a sync.Mutex hands itself to
\* a goroutine that has waited for it (starvation mode), so a step that is
\* possible again and again is taken.  Nothing makes a caller call.
FairSpec ==
    /\ InitCached
    /\ [][\E t \in Threads : FairNext(t)]_vars
    /\ \A t \in Threads : SF_vars(FairNext(t) /\ pc[t] # "idle")

\* One goroutine calls Create on a reachable server, whatever lists the
\* server declares, and on the client it returned up to MaxCalls times
\* SetCacheSize, a setter of the requested capabilities or LookupUserAgent,
\* and writes down what each call returned.
AnyServerNext(t) ==
    \/ Create(t, "http", "localhost")
    \/ CreateInfo(t, InfoAnswers)
    \/ /\ Len(hist) \in 1..MaxCalls /\ hist[1].call.client
       /\ \/ SetCacheSize(t, 1)
          \/ SetRequestedStaticCapabilities(t, [names |-> StaticList, nil |-> FALSE])
          \/ SetRequestedVirtualCapabilities(t, [names |-> StaticList, nil |-> FALSE])
          \/ SetRequestedCapabilities(t, [names |-> StaticList, nil |-> FALSE])
          \/ \E userAgent \in {"a", "b"} : LookupUserAgent(t, userAgent)
    \/ NewUACache(t) \/ NewDeviceCache(t)
    \/ SetStatic(t) \/ SetVirtual(t) \/ SetBothFirst(t) \/ SetBothSecond(t)
    \/ clearCache(t)
    \/ Lookup(t, {"ok"}, CurrentLtime)
    \/ ReturnObserved(t)

AnyServerSpec == Uncreated /\ [][AnyServerNext("t1")]_vars

\* Two goroutines call the methods that go to the server on a client with
\* caches: a lookup on either cache, GetInfo and the loads of both tables,
\* whose fetch can fail, while the server may reload its data.
ParNext ==
    \/ \E t \in Threads :
          \/ LookupUserAgent(t, "a")
          \/ LookupDeviceID(t, "d")
          \/ Lookup(t, {"ok"}, CurrentLtime)
          \/ clearCache(t)
          \/ GetInfo(t)
          \/ NetInfo(t, {"ok"}, CurrentLtime)
          \/ GetAllOSes(t)
          \/ GetAllDeviceMakes(t)
          \/ Table(t, {"ok", "connect"})
          \/ Return(t)
    \/ ServerReload

ParSpec == InitCached /\ [][ParNext]_vars

(***************************************************************************)
(* Claims.                                                                 *)
(***************************************************************************)
\* the entries of both caches
CacheEntries == SeqToSet(userAgentCache.ll) \cup SeqToSet(deviceCache.ll)

\* no goroutine is inside a method
Quiescent == \A t \in Threads : pc[t] = "idle"

\* C1: in every reachable state every entry of the header cache and of the
\* device-id cache carries the token the client has stored (clientLtime).
\* Stated here for the states in which every method has returned, where no
\* invalidation is half done: the claim makes it for these states too.
C1_EntriesCarryClientLtime ==
    Quiescent => \A e \in CacheEntries : e.value.Ltime = clientLtime

(* ---- C2 ---- *)
\* a recorded call that is a lookup which gave a payload and no error
SuccessfulLookup(h) == h.call.op \in Lookups /\ h.call.err = ""

\* a recorded lookup that was answered by the server
FromServer(h) == ~h.call.ok

\* the token of the payload a recorded lookup returned
LtimeOf(h) == h.call.deviceData.Ltime

\* the recorded sizes: of the cache the lookup works on, and of the other one
OwnSize(h) == IF h.call.op \in HeaderLookups THEN h.uaSize ELSE h.dSize

OtherSize(h) == IF h.call.op \in HeaderLookups THEN h.dSize ELSE h.uaSize

\* two successful lookups in a row, the second answered by the server with a
\* token that differs from the first's
TokenChanged(i) ==
    /\ i \in 2..Len(hist)
    /\ SuccessfulLookup(hist[i-1]) /\ SuccessfulLookup(hist[i])
    /\ FromServer(hist[i])
    /\ LtimeOf(hist[i]) # LtimeOf(hist[i-1])

\* C2 as stated: after two successful lookups on a client with caches, the
\* second answered with a token that differs from the first's, the sizes read
\* right after the second returned are 0 for both caches.
C2_BothSizesZeroAfterSecond ==
    \A i \in 1..Len(hist) :
        TokenChanged(i) => hist[i].dSize = 0 /\ hist[i].uaSize = 0

\* C2, amended: when both tokens are non-empty, the sizes read right after
\* the second lookup returned are 1 for the cache the second lookup works on
\* (its own result, stored after the clearing) and 0 for the other cache.
C2_OnlySecondResultAfterSecond ==
    \A i \in 1..Len(hist) :
        (TokenChanged(i) /\ LtimeOf(hist[i]) # "" /\ LtimeOf(hist[i-1]) # "")
            => OwnSize(hist[i]) = 1 /\ OtherSize(hist[i]) = 0

\* the second lookup came after a device-id lookup and a reload of the server
C2_Witness ==
    /\ Len(hist) = 3
    /\ TokenChanged(3)
    /\ LtimeOf(hist[3]) # "" /\ LtimeOf(hist[2]) # ""
    /\ hist[1].call.op # hist[3].call.op
    /\ hist[1].dSize + hist[1].uaSize = 1
    /\ hist[2].dSize + hist[2].uaSize = 2

(* ---- C3, C4 ---- *)
Setters ==
    {"SetRequestedStaticCapabilities", "SetRequestedVirtualCapabilities",
     "SetRequestedCapabilities"}

\* the names of its CapsList that a setter keeps
Filtered(l) ==
    CASE l.op = "SetRequestedStaticCapabilities" -> FilterHas(l.CapsList.names, StaticCaps)
      [] l.op = "SetRequestedVirtualCapabilities" -> FilterHas(l.CapsList.names, VirtualCaps)
      [] l.op = "SetRequestedCapabilities" ->
            FilterHas(l.CapsList.names, StaticCaps)
                \o FilterElse(l.CapsList.names, StaticCaps, VirtualCaps)

\* a setter that was passed nil, or a list of which it keeps some name
ClearsOrCommits(l) ==
    l.op \in Setters /\ (l.CapsList.nil \/ Filtered(l) # <<>>)

\* a setter that was passed a list of which it keeps no name
FiltersAllAway(l) ==
    l.op \in Setters /\ ~l.CapsList.nil /\ Filtered(l) = <<>>

TablesEmpty ==
    /\ mkModels = <<>>
    /\ deviceMakes = <<>> /\ deviceMakesMap = {}
    /\ deviceOses = <<>> /\ deviceOsVerMap = {}

\* C3: when a setter of the requested capabilities that was passed nil, or
\* that commits a non-empty filtered set, returns, both caches have size 0
\* and both tables are empty.
C3_SetterLeavesAllEmpty ==
    \A t \in Threads :
        (pc[t] = "ret" /\ ClearsOrCommits(loc[t]))
            => dSizeNow = 0 /\ uaSizeNow = 0 /\ TablesEmpty

\* a setter returns after it committed a name, on a client with caches
C3_Witness ==
    \E t \in Threads :
        /\ pc[t] = "ret" /\ ClearsOrCommits(loc[t]) /\ ~loc[t].CapsList.nil
        /\ userAgentCache.on /\ deviceCache.on
        /\ requestedStaticCaps # <<>>

\* C4: no step of a setter that was passed a non-nil list of which it keeps
\* no name changes the committed static and virtual sets or the caches.
C4_EmptyFilterChangesNothing ==
    [][\A t \in Threads :
          FiltersAllAway(loc[t]) => UNCHANGED <<requested, caches>>]_vars

(* ---- C5 ---- *)
\* two recorded lookups that work on the same cache with the same key
SameKey(h, g) ==
    /\ h.call.op \in Lookups /\ g.call.op \in Lookups
    /\ (h.call.op \in HeaderLookups) = (g.call.op \in HeaderLookups)
    /\ h.key = g.key

\* the keys the successful lookups up to the j-th one have put into the cache
\* the j-th one works on
KeysUpTo(j) ==
    {hist[k].key : k \in {n \in 1..j : SuccessfulLookup(hist[n])
                                         /\ (hist[n].call.op \in HeaderLookups)
                                              = (hist[j].call.op \in HeaderLookups)}}

\* the capacity of the cache the j-th recorded lookup works on
CapacityFor(j) ==
    IF hist[j].call.op \in HeaderLookups
    THEN userAgentCache.MaxEntries ELSE deviceCache.MaxEntries

\* the j-th recorded lookup went to no server, left both sizes as the call
\* before it left them, and returned what the i-th one returned
ServedAs(i, j) ==
    /\ hist[j].call.ok
    /\ hist[j].dSize = hist[j-1].dSize /\ hist[j].uaSize = hist[j-1].uaSize
    /\ hist[j].call.deviceData = hist[i].call.deviceData
    /\ hist[j].call.err = ""

\* C5 as stated: on a client with caches whose server did not reload and
\* whose requested capabilities were not modified, every lookup for a key
\* that an earlier lookup was successful for goes to no server, leaves
\* both cache sizes unchanged and returns the same payload.
C5_RepeatedLookupIsServedFromCache ==
    serverGen = 1 =>
        \A i, j \in 1..Len(hist) :
            (i < j /\ SuccessfulLookup(hist[i]) /\ SameKey(hist[i], hist[j]))
                => ServedAs(i, j)

\* C5, amended: the same, for as long as the successful lookups have put no
\* more keys into that cache than it has room for (a further key evicts the
\* least recently used entry, and a lookup for an evicted key goes to the
\* server again).
C5_RepeatedLookupIsServedWhileKept ==
    serverGen = 1 =>
        \A i, j \in 1..Len(hist) :
            (i < j /\ SuccessfulLookup(hist[i]) /\ SameKey(hist[i], hist[j])
                  /\ Cardinality(KeysUpTo(j)) <= CapacityFor(j))
                => ServedAs(i, j)

\* a third lookup is served the result of the first, by another method and
\* after a lookup for another key
C5_Witness ==
    /\ serverGen = 1 /\ Len(hist) = 3
    /\ SuccessfulLookup(hist[1]) /\ SameKey(hist[1], hist[3])
    /\ hist[1].call.op # hist[3].call.op
    /\ SuccessfulLookup(hist[2]) /\ hist[2].call.op \in HeaderLookups
    /\ hist[2].key # hist[1].key
    /\ Cardinality(KeysUpTo(3)) = 2 /\ CapacityFor(3) = 2
    /\ ServedAs(1, 3)

(* ---- C6 ---- *)
\* a method that was given a successful answer is past its call of
\* clearCachesIfNeeded: a lookup before it stores the answer, GetInfo before
\* it returns
PastCheck(t) ==
    \/ loc[t].op \in Lookups /\ pc[t] \in {"add_chk", "add_lock", "add"}
    \/ loc[t].op = "GetInfo" /\ pc[t] = "ret" /\ loc[t].err = ""

\* what clearCachesIfNeeded, when goroutine t executes it, does with the token
\* of the answer
CheckStep(t) ==
    (pc[t] = "cc" /\ pc'[t] # "cc") =>
        IF loc[t].ltime # "" /\ loc[t].ltime # clientLtime
        THEN /\ clientLtime' = loc[t].ltime
             /\ loc'[t].cleared
             /\ pc'[t] = "clear_ua_lock"
        ELSE /\ UNCHANGED <<clientLtime, caches, tables>>
             /\ ~loc'[t].cleared
             /\ pc'[t] = AfterCheck(loc[t].op)

\* C6: a successful answer to a lookup or to GetInfo with a non-empty token
\* that differs from the stored one makes the client store the token and
\* empty both caches and both tables before the lookup stores its result or
\* the method returns; an answer with the stored token clears nothing.
C6_NewTokenStoredAndAllCleared ==
    /\ [](\A t \in Threads :
            (PastCheck(t) /\ loc[t].ltime # "")
                => /\ clientLtime = loc[t].ltime
                   /\ loc[t].cleared => (dSizeNow = 0 /\ uaSizeNow = 0 /\ TablesEmpty))
    /\ [][\A t \in Threads : CheckStep(t)]_vars

\* a lookup on a client with caches is about to store an answer whose token
\* made it clear all
C6_Witness ==
    \E t \in Threads :
        /\ PastCheck(t) /\ loc[t].op \in Lookups /\ loc[t].cleared
        /\ userAgentCache.on /\ deviceCache.on
        /\ clientLtime = Ltimes[2]

(* ---- C7 ---- *)
\* SetCacheSize was never called: the client has no cache
NeverSized == ~userAgentCache.on /\ ~deviceCache.on

\* C7: on a client on which SetCacheSize was never called every lookup goes
\* to the server and none is served or stored by a cache, the sizes that
\* GetActualCacheSizes returns are (0, 0), and the token of a successful
\* answer is still checked and stored.
C7_NoCacheNoStore ==
    NeverSized =>
        /\ userAgentCache = NoCache /\ deviceCache = NoCache
        /\ \A t \in Threads :
              /\ loc[t].op \in Lookups
                    => /\ ~loc[t].ok
                       /\ pc[t] \notin {"probe_lock", "probe_get", "add_lock", "add"}
              /\ (loc[t].op = "GetActualCacheSizes" /\ pc[t] = "ret")
                    => loc[t].dSize = 0 /\ loc[t].uaSize = 0
              /\ ((PastCheck(t) \/ (loc[t].op \in Lookups /\ pc[t] = "ret"))
                      /\ loc[t].ltime # "")
                    => clientLtime = loc[t].ltime

\* a lookup on a client without caches returns an answer whose new token it
\* has stored
C7_Witness ==
    \E t \in Threads :
        /\ NeverSized
        /\ loc[t].op \in Lookups /\ pc[t] = "ret" /\ loc[t].err = ""
        /\ loc[t].cleared /\ clientLtime = Ltimes[2]

(* ---- C8, C9 ---- *)
HeaderMapLookups == {"LookupHeaders", "LookupRequest"}

LowerImportant == {ToLower(ImportantHeaders[i]) : i \in 1..Len(ImportantHeaders)}

\* what a caller gave for the important headers, whatever the spelling of
\* their names, the order and the other headers: for LookupHeaders from its
\* map, for LookupRequest from the request's header
Given(h) ==
    IF h.call.op = "LookupHeaders"
    THEN {<<ToLower(p[1]), p[2]>> :
             p \in {q \in h.call.headers : ToLower(q[1]) \in LowerImportant}}
    ELSE UNION {{<<ToLower(p[1]), p[2][i]>> : i \in 1..Len(p[2])} :
                   p \in {q \in h.call.header : ToLower(q[1]) \in LowerImportant}}

\* no important header is given twice with two values
GivenOnce(h) == \A p, q \in Given(h) : p[1] = q[1] => p = q

\* two header lookups in a row, the first successful, whose callers gave the
\* same important headers
Alike(j) ==
    /\ j \in 2..Len(hist)
    /\ hist[j-1].call.op \in HeaderMapLookups /\ hist[j].call.op \in HeaderMapLookups
    /\ SuccessfulLookup(hist[j-1])
    /\ Given(hist[j-1]) = Given(hist[j])

\* C8 as stated: LookupHeaders and LookupRequest derive the same cache key
\* for headers that differ only in the spelling of the names, in the order
\* or in headers that are not important: the second lookup hits the entry
\* the first stored.
C8_AlikeHeadersSameKey ==
    \A j \in 1..Len(hist) :
        Alike(j) => hist[j].key = hist[j-1].key /\ hist[j].call.ok

\* C8, amended: the same, for headers in which no important header is given
\* twice with two values (in a map under two spellings of its name, in a
\* request by two Add calls).
C8_AlikeSingleHeadersSameKey ==
    \A j \in 1..Len(hist) :
        (Alike(j) /\ GivenOnce(hist[j]))
            => hist[j].key = hist[j-1].key /\ hist[j].call.ok

\* LookupRequest hits what LookupHeaders stored for a map that spells the
\* names in another way and has another header
C8_Witness ==
    /\ Len(hist) >= 2 /\ Alike(2) /\ GivenOnce(hist[2])
    /\ hist[1].call.op = "LookupHeaders" /\ hist[2].call.op = "LookupRequest"
    /\ hist[1].call.headers = {<<"USER-AGENT", "a">>, <<"X-UCBrowser-Device-UA", "b">>}
    /\ hist[2].call.ok
    /\ hist[2].call.deviceData = hist[1].call.deviceData

\* C9: a header lookup is served from the cache only with the payload the
\* server gave for the same values of the important headers.
C9_ServedOnlyForSameValues ==
    \A j \in 1..Len(hist) :
        (hist[j].call.op \in HeaderMapLookups /\ hist[j].call.ok)
            => hist[j].call.deviceData.capsFor.LookupHeaders
                   = hist[j].call.jrequest.LookupHeaders

(* ---- C10 ---- *)
\* the cache field and the cache a lookup works on, as memory locations
FieldOf(op) == IF op \in HeaderLookups THEN "userAgentCache" ELSE "deviceCache"

ObjectOf(op) == IF op \in HeaderLookups THEN "*userAgentCache" ELSE "*deviceCache"

TableOf(op) == IF op \in OsOps THEN "deviceOses" ELSE "deviceMakes"

\* the locations of the client that the statement goroutine t executes next
\* reads
ReadsAt(t) ==
    LET l == loc[t]
    IN  CASE pc[t] \in {"probe_chk", "add_chk"} -> {FieldOf(l.op)}
          [] pc[t] \in {"probe_get", "add"} -> {FieldOf(l.op), ObjectOf(l.op)}
          [] pc[t] = "req_caps" -> {"requestedStaticCaps"}
          [] pc[t] = "req_vcaps" -> {"requestedVirtualCaps"}
          [] pc[t] = "cc" -> {"ltime"}
          [] pc[t] \in {"clear_ua", "sizes_ua"} -> {"userAgentCache", "*userAgentCache"}
          [] pc[t] \in {"clear_dev", "sizes_dev"} -> {"deviceCache", "*deviceCache"}
          [] pc[t] \in {"load_chk", "get"} -> {TableOf(l.op)}
          [] pc[t] = "loaded" -> IF l.err # "" THEN {TableOf(l.op)} ELSE {}
          [] pc[t] = "get_makes" -> {"deviceMakes"}
          [] OTHER -> {}

\* and the locations it writes
WritesAt(t) ==
    LET l == loc[t]
    IN  CASE pc[t] \in {"probe_get", "add"} -> {ObjectOf(l.op)}
          [] pc[t] = "cc" ->
                IF Len(l.ltime) > 0 /\ clientLtime # l.ltime THEN {"ltime"} ELSE {}
          [] pc[t] = "clear_ua" ->
                IF userAgentCache.on /\ lruLen(userAgentCache) > 0
                THEN {"*userAgentCache"} ELSE {}
          [] pc[t] = "clear_dev" ->
                IF deviceCache.on /\ lruLen(deviceCache) > 0
                THEN {"*deviceCache"} ELSE {}
          [] pc[t] \in {"clear_mk", "destroy"} -> {"mkModels"}
          [] pc[t] = "clear_makes" -> {"deviceMakes"}
          [] pc[t] = "clear_oses" -> {"deviceOses"}
          [] pc[t] = "load_put" -> {TableOf(l.op)}
          [] pc[t] = "size_ua" -> {"userAgentCache"}
          [] pc[t] = "size_dev" -> {"deviceCache"}
          [] pc[t] = "set_static" ->
                IF l.CapsList.nil \/ FilterHas(l.CapsList.names, StaticCaps) # <<>>
                THEN {"requestedStaticCaps"} ELSE {}
          [] pc[t] = "set_virtual" ->
                IF l.CapsList.nil \/ FilterHas(l.CapsList.names, VirtualCaps) # <<>>
                THEN {"requestedVirtualCaps"} ELSE {}
          [] pc[t] = "set_both_1" ->
                IF l.CapsList.nil THEN {"requestedVirtualCaps"} ELSE {"requestedStaticCaps"}
          [] pc[t] = "set_both_2" ->
                IF l.CapsList.nil THEN {"requestedStaticCaps"} ELSE {"requestedVirtualCaps"}
          [] OTHER -> {}

\* C10: under any interleaving of concurrent callers no structure of the
\* client (the caches, the tables, the requested capability lists, the
\* stored token) is accessed by two goroutines at once with at least one of
\* them writing: each access is made under the structure's lock.
C10_NoTwoAccessAtOnce ==
    \A t, u \in Threads :
        t # u => WritesAt(t) \cap (ReadsAt(u) \cup WritesAt(u)) = {}

(* ---- C11 ---- *)
\* the statements that wait for the server: the POST of a lookup, the GET of
\* GetInfo and the GET of a listing
NetLabels == {"net", "info_net", "load_net"}

\* the mutexes a goroutine holds
HeldBy(t) == {m \in LockNames : lock[m] = t}

\* C11: a goroutine that waits for the server holds none of the client's
\* locks, so it keeps no other goroutine from taking the lock of a cache it
\* is about to read.
C11_NoLockDuringNetwork ==
    \A t \in Threads :
        pc[t] \in NetLabels
            => /\ HeldBy(t) = {}
               /\ \A u \in Threads :
                     pc[u] = "probe_lock" => lock[MutexOf(loc[u].op)] # t

\* one goroutine reads a cache under its lock while the other waits for a
\* listing
C11_Witness ==
    \E t, u \in Threads :
        /\ pc[t] = "load_net"
        /\ pc[u] = "probe_get" /\ HeldBy(u) # {}

(* ---- C12 ---- *)
\* goroutine t has purged the header cache and the device cache still holds
\* what it held before the invalidation
HalfCleared(t) ==
    /\ pc[t] \in {"clear_dev_lock", "clear_dev"}
    /\ deviceCache.on /\ lruLen(deviceCache) > 0

\* C12: an invalidation is atomic for the other goroutines: as long as it
\* has purged one structure and another one still holds its old data, no
\* other goroutine is inside a critical section that reads or writes one of
\* the structures.
C12_InvalidationIsAtomic ==
    \A t, u \in Threads :
        t # u /\ HalfCleared(t) => HeldBy(u) = {}

(* ---- C13 ---- *)
\* a lookup of goroutine t is between its probe and the answer of the server
BeforeAnswer(t) ==
    loc[t].op \in Lookups /\ pc[t] \in {"req_caps", "req_vcaps", "net"}

\* a lookup of goroutine t is about to put the answer into its cache
BeforeAdd(t) ==
    loc[t].op \in Lookups /\ pc[t] \in {"add_chk", "add_lock", "add"}

\* a step puts a key into a cache that the cache did not hold
CacheGrows ==
    \/ lruKeys(userAgentCache)' \ lruKeys(userAgentCache) # {}
    \/ lruKeys(deviceCache)' \ lruKeys(deviceCache) # {}

\* C13: in every lookup of a single caller the cache is probed before the
\* server is asked, so the request goes out only for a key the cache does
\* not hold, and the answer is put into the cache only after the check of
\* its token: the server has answered without an error, a token it carries
\* is the one the client has stored, and nothing but that last statement of
\* a lookup puts a key into a cache.
C13_ProbeThenNetThenCheckThenAdd ==
    /\ [](\A t \in Threads :
            /\ BeforeAnswer(t) /\ CacheOf(loc[t].op).on
                  => KeyOf(loc[t]) \notin lruKeys(CacheOf(loc[t].op))
            /\ BeforeAdd(t)
                  => /\ loc[t].err = "" /\ ~loc[t].deviceData.isNil
                     /\ Len(loc[t].ltime) > 0 => clientLtime = loc[t].ltime)
    /\ [][CacheGrows => \E t \in Threads : pc[t] = "add" /\ pc'[t] = "ret"]_vars

\* a lookup has missed its cache, asked the server, purged the caches for the
\* new token of the answer, and is about to store the answer
C13_Witness ==
    \E t \in Threads :
        /\ pc[t] = "add" /\ loc[t].cleared
        /\ KeyOf(loc[t]) \notin lruKeys(CacheOf(loc[t].op))

ReturnsServerError(t) ==
    /\ pc[t] = "ret" /\ loc[t].op \in Lookups
    /\ loc[t].err = "Received error from WM server"

\* C15: a lookup whose answer carries an error message returns an error
\* together with a result that is not nil, that has the API version and the
\* timestamp of the answer, an empty Error field and no capability map; the
\* result is in no cache, and the key of the lookup is not in its cache.
C15_ErrorAnswerReturnedNotStored ==
    \A t \in Threads :
        ReturnsServerError(t)
            => LET d == loc[t].deviceData
               IN  /\ ~d.isNil
                   /\ d.APIVersion # "" /\ d.Mtime > 0
                   /\ d.Error = ""
                   /\ ~d.hasCaps
                   /\ \A e \in CacheEntries : e.value # d
                   /\ CacheOf(loc[t].op).on
                         => KeyOf(loc[t]) \notin lruKeys(CacheOf(loc[t].op))

\* a lookup on a client with caches returns the error of the server
C15_Witness ==
    \E t \in Threads : ReturnsServerError(t) /\ CacheOf(loc[t].op).on

(* ---- C16 ---- *)
\* goroutine t returns from a method of the listings whose fetch has failed
FetchFailed(t) ==
    /\ pc[t] = "ret" /\ loc[t].op \in OsOps \cup MakeOps
    /\ loc[t].fetch \in Failures

\* C16: when the fetch of a listing fails and no table is in memory, each of
\* the four methods returns the failure of the fetch as its error, neither
\* no error nor the error of a name that does not exist.
C16_FailureOfFetchReturned ==
    \A t \in Threads :
        FetchFailed(t) /\ TableKeys(loc[t].op) = <<>> => loc[t].err = loc[t].fetch

(* ---- C17 ---- *)
\* C17: when the fetch of a listing fails while a table that is not empty is
\* in memory, GetAllOSes and GetAllDeviceMakes return the failure together
\* with the names of that table.
C17_StaleTableWithError ==
    \A t \in Threads :
        /\ FetchFailed(t) /\ TableKeys(loc[t].op) # <<>>
        /\ loc[t].op \in {"GetAllOSes", "GetAllDeviceMakes"}
        => /\ loc[t].err = loc[t].fetch
           /\ loc[t].retVal = TableKeys(loc[t].op)

(* ---- C18 ---- *)
\* goroutine t returns from GetAllVersionsForOS or GetAllDevicesForMake and
\* the table of the method is loaded
ValuesReturned(t) ==
    /\ pc[t] = "ret" /\ loc[t].op \in {"GetAllVersionsForOS", "GetAllDevicesForMake"}
    /\ TableKeys(loc[t].op) # <<>>

\* the versions or devices the table holds for the name passed to the method
StoredFor(l) == MapGet(TableMap(l.op), l.arg)

\* C18: with its table loaded, GetAllVersionsForOS and GetAllDevicesForMake
\* return the error of a name that does not exist exactly for the names the
\* table has no entry for, and no error for a name of the table; for an
\* operating system of which the table holds blank versions only, the list
\* returned is empty and there is no error.
C18_NotFoundOnlyForUnknownNames ==
    \A t \in Threads :
        ValuesReturned(t)
            => LET l == loc[t]
                   known == l.arg \in MapKeys(TableMap(l.op))
               IN  /\ l.err = "does not exist" <=> ~known
                   /\ known => l.err = ""
                   /\ ~known => l.retVal = <<>>
                   /\ ( /\ known /\ l.op = "GetAllVersionsForOS"
                        /\ \A i \in 1..Len(StoredFor(l)) : StoredFor(l)[i] = "" )
                         => l.retVal = <<>> /\ l.err = ""

\* GetAllVersionsForOS returns for an operating system of which the server
\* lists a blank version only
C18_Witness ==
    \E t \in Threads :
        /\ ValuesReturned(t) /\ loc[t].op = "GetAllVersionsForOS"
        /\ loc[t].arg \in MapKeys(deviceOsVerMap)
        /\ StoredFor(loc[t]) = <<"">>
        /\ loc[t].retVal = <<>> /\ loc[t].err = ""

(* ---- C19 ---- *)
\* a returned call of one of the four methods of the listings
IsTableCall(h) == h.call.op \in OsOps \cup MakeOps

\* two returned calls on the same table
SameTable(h, g) ==
    /\ IsTableCall(h) /\ IsTableCall(g)
    /\ (h.call.op \in OsOps) = (g.call.op \in OsOps)

\* the call returned with its table in memory: it fetched and stored it, or it
\* found it and did not fetch
Built(h) == IsTableCall(h) /\ h.call.fetch \in {"", "ok"}

\* the call emptied the tables: GetInfo or a lookup that found a new token, a
\* setter that changed the requested capabilities, DestroyConnection
Clears(h) ==
    \/ h.call.cleared
    \/ ClearsOrCommits(h.call)
    \/ h.call.op = "DestroyConnection"

NoClearBetween(i, j) == \A k \in (i + 1)..(j - 1) : ~Clears(hist[k])

\* C19: a listing is fetched only by a call that finds its table empty, and
\* a call that returns without a fetch has found the table.  Once a call has
\* returned with the table in memory, every later call on that table makes
\* no fetch and a call of the same method with the same argument returns the
\* same list and error, whatever the server has reloaded, as long as no call
\* in between has emptied the tables; the first call after one that has
\* emptied them fetches again.
C19_LoadedOnceUntilCleared ==
    /\ \A t \in Threads :
          /\ pc[t] = "load_net" => TableKeys(loc[t].op) = <<>>
          /\ pc[t] = "ret" /\ loc[t].op \in OsOps \cup MakeOps /\ loc[t].fetch = ""
                => TableKeys(loc[t].op) # <<>>
    /\ \A i, j \in 1..Len(hist) :
          i < j /\ Built(hist[i]) /\ SameTable(hist[i], hist[j]) /\ NoClearBetween(i, j)
              => /\ hist[j].call.fetch = ""
                 /\ hist[i].call.op = hist[j].call.op /\ hist[i].call.arg = hist[j].call.arg
                       => /\ hist[j].call.retVal = hist[i].call.retVal
                          /\ hist[j].call.err = hist[i].call.err
    /\ \A j \in 2..Len(hist) :
          Clears(hist[j - 1]) /\ IsTableCall(hist[j]) => hist[j].call.fetch # ""

\* GetAllOSes has fetched the listing, the server has reloaded its data, and
\* a second GetAllOSes has returned the names of the first without a fetch
C19_Witness ==
    /\ Len(hist) >= 2
    /\ hist[1].call.op = "GetAllOSes" /\ hist[1].call.fetch = "ok"
    /\ hist[2].call.op = "GetAllOSes" /\ hist[2].call.fetch = ""
    /\ hist[2].call.retVal = hist[1].call.retVal
    /\ hist[2].call.retVal # BuildOses(OsListing(serverGen), Len(OsListing(serverGen))).keys

(* ---- C20 ---- *)
\* goroutine t returns from GetAllVersionsForOS with the versions of an
\* operating system of the table
VersionsReturned(t) ==
    /\ pc[t] = "ret" /\ loc[t].op = "GetAllVersionsForOS"
    /\ loc[t].arg \in MapKeys(deviceOsVerMap) /\ loc[t].err = ""

NotBlank(v) == v # ""

\* C20: GetAllVersionsForOS returns the versions stored for the operating
\* system without the blank ones, in the order in which they are stored, and
\* the table keeps the blank ones: from the listing (Android, 7.0),
\* (Android, ""), (iOS, 10.2) the table holds 7.0 and "" for Android and the
\* method returns 7.0 only.
C20_VersionsWithoutBlanks ==
    \A t \in Threads :
        VersionsReturned(t)
            => /\ loc[t].retVal = SelectSeq(StoredFor(loc[t]), NotBlank)
               /\ loc[t].arg = "Android"
                     => StoredFor(loc[t]) = <<"7.0", "">> /\ loc[t].retVal = <<"7.0">>

\* GetAllVersionsForOS("Android") returns
C20_Witness ==
    \E t \in Threads :
        /\ VersionsReturned(t) /\ loc[t].arg = "Android"
        /\ "" \in SeqToSet(StoredFor(loc[t]))

(* ---- C21 ---- *)
\* the i-th and the next recorded call are SetRequestedStaticCapabilities and
\* SetRequestedVirtualCapabilities with the lists of the test
TestSetters(i) ==
    /\ i + 1 <= Len(hist)
    /\ hist[i].call.op = "SetRequestedStaticCapabilities"
    /\ hist[i].call.CapsList = [names |-> StaticList, nil |-> FALSE]
    /\ hist[i + 1].call.op = "SetRequestedVirtualCapabilities"
    /\ hist[i + 1].call.CapsList = [names |-> VirtualList, nil |-> FALSE]

\* C21: after SetRequestedStaticCapabilities([brand_name, invalid_name1,
\* is_ios]) and SetRequestedVirtualCapabilities([is_ios, invalid_name2,
\* brand_name]) the requested static capabilities are [brand_name] and the
\* virtual ones [is_ios], neither setter has an error to return, and the
\* request of the lookup that follows carries these two lists.
C21_TestListsAreFiltered ==
    \A i \in 1..Len(hist) :
        TestSetters(i)
            => /\ hist[i].call.err = "" /\ hist[i + 1].call.err = ""
               /\ i + 1 = Len(hist) /\ pc["t1"] = "idle"
                     => /\ requestedStaticCaps = <<"brand_name">>
                        /\ requestedVirtualCaps = <<"is_ios">>
               /\ i + 2 <= Len(hist) /\ hist[i + 2].call.op \in Lookups
                     => /\ FromServer(hist[i + 2])
                        /\ hist[i + 2].call.jrequest.RequestedCaps = <<"brand_name">>
                        /\ hist[i + 2].call.jrequest.RequestedVCaps = <<"is_ios">>

\* the lookup after the two setters has returned
C21_Witness ==
    /\ Len(hist) = 3 /\ TestSetters(1)
    /\ hist[3].call.op = "LookupUserAgent" /\ hist[3].call.err = ""
    /\ hist[3].call.deviceData.capsFor.RequestedCaps = <<"brand_name">>

(* ---- C22 ---- *)
\* the size of the cache the j-th recorded lookup does not work on, as the
\* call before it left it: 0 on the new client
OtherSizeBefore(j) == IF j = 1 THEN 0 ELSE OtherSize([hist[j - 1] EXCEPT !.call = hist[j].call])

\* C22: a successful lookup that finds no new token leaves the size of the
\* cache of the other kind of lookup as it was; after a device-id lookup and
\* a header lookup on a new client with caches, in either order and with no
\* new token, both sizes are 1; and as long as header lookups are the only
\* calls the device-id cache has size 0.
C22_LookupChangesItsOwnCacheOnly ==
    /\ \A j \in 1..Len(hist) :
          SuccessfulLookup(hist[j]) /\ ~hist[j].call.cleared
              => OtherSize(hist[j]) = OtherSizeBefore(j)
    /\ ( /\ Len(hist) >= 2
         /\ SuccessfulLookup(hist[1]) /\ SuccessfulLookup(hist[2])
         /\ ~hist[1].call.cleared /\ ~hist[2].call.cleared
         /\ (hist[1].call.op \in HeaderLookups) # (hist[2].call.op \in HeaderLookups) )
          => hist[2].dSize = 1 /\ hist[2].uaSize = 1
    /\ \A j \in 1..Len(hist) :
          (\A k \in 1..j : hist[k].call.op \in HeaderLookups) => hist[j].dSize = 0

\* LookupDeviceID and then LookupUserAgent have returned on a new client
C22_Witness ==
    /\ Len(hist) >= 2
    /\ hist[1].call.op = "LookupDeviceID" /\ SuccessfulLookup(hist[1])
    /\ hist[2].call.op = "LookupUserAgent" /\ SuccessfulLookup(hist[2])
    /\ hist[2].dSize = 1 /\ hist[2].uaSize = 1

(* ---- C23 ---- *)
\* the keys of the header lookups that returned a result, up to the j-th
\* recorded call and since the last call that emptied the caches, each once,
\* the one used last first
RECURSIVE UsedKeys(_)
UsedKeys(j) ==
    IF j = 0 THEN <<>>
    ELSE LET h == hist[j]
         IN  CASE h.call.op \in {"SetCacheSize", "DestroyConnection"} -> <<>>
               [] h.call.op \in HeaderLookups /\ h.call.err = "" ->
                     <<h.key>> \o SelectSeq(UsedKeys(j - 1), LAMBDA k : k # h.key)
               [] OTHER -> UsedKeys(j - 1)

\* the keys of the header cache, the one at the front first
KeysInOrder == [i \in 1..lruLen(userAgentCache) |-> userAgentCache.ll[i].key]

\* the first n elements of s, all of s when it is shorter
FirstOf(s, n) == SubSeq(s, 1, IF Len(s) < n THEN Len(s) ELSE n)

\* C23 as stated: the header cache never holds more entries than the
\* maximum SetCacheSize was passed, the device-id cache never more than
\* 20000.
C23_NeverMoreThanMaximum ==
    /\ userAgentCache.on => lruLen(userAgentCache) <= userAgentCache.MaxEntries
    /\ deviceCache.on => lruLen(deviceCache) <= deviceDefaultCacheSize

\* C23, amended: the same for a maximum above 0 (with 0 the header cache has
\* no limit), be it the one the last SetCacheSize of the caller was passed or
\* the one of the cache the client came with; and between two calls a header cache with a maximum above 0
\* holds exactly the keys used last, as many as the maximum allows, so that a
\* key put into a full cache takes the place of the least recently used one.
C23_NeverMoreThanPositiveMaximum ==
    /\ \A k \in 1..Len(hist) :
          ( /\ hist[k].call.op = "SetCacheSize" /\ hist[k].call.size > 0
            /\ (\A n \in (k + 1)..Len(hist) : hist[n].call.op # "SetCacheSize") )
          => /\ userAgentCache.on /\ deviceCache.on
             /\ pc["t1"] \notin {"size_ua", "size_dev"}
                   => lruLen(userAgentCache) <= hist[k].call.size
    /\ userAgentCache.on /\ userAgentCache.MaxEntries > 0
          => lruLen(userAgentCache) <= userAgentCache.MaxEntries
    /\ deviceCache.on => lruLen(deviceCache) <= deviceDefaultCacheSize
    /\ userAgentCache.on /\ userAgentCache.MaxEntries > 0 /\ pc["t1"] = "idle"
          => KeysInOrder = FirstOf(UsedKeys(Len(hist)), userAgentCache.MaxEntries)

\* three header lookups for three keys have returned on a cache for two: the
\* key of the first is gone
C23_Witness ==
    /\ pc["t1"] = "idle" /\ Len(hist) = 3
    /\ userAgentCache.on /\ userAgentCache.MaxEntries = 2
    /\ Len(UsedKeys(3)) = 3
    /\ lruLen(userAgentCache) = 2
    /\ hist[1].key \notin lruKeys(userAgentCache)

(* ---- C24 ---- *)
\* C24: when SetCacheSize returns, on a client without caches or on one whose
\* caches hold entries, there are two caches and both are empty: the sizes
\* read right after it are 0 and 0, and a lookup that is the next call finds
\* nothing in its cache and goes to the server.
C24_SetCacheSizeStartsAnew ==
    /\ \A t \in Threads :
          pc[t] = "ret" /\ loc[t].op = "SetCacheSize"
              => /\ userAgentCache = lruNew(loc[t].size)
                 /\ deviceCache = lruNew(deviceDefaultCacheSize)
    /\ \A j \in 1..Len(hist) :
          hist[j].call.op = "SetCacheSize"
              => /\ hist[j].dSize = 0 /\ hist[j].uaSize = 0
                 /\ j < Len(hist) /\ hist[j + 1].call.op \in Lookups
                       => FromServer(hist[j + 1])

\* SetCacheSize was called on a client whose two caches held an entry each,
\* and the lookup after it has returned
C24_Witness ==
    /\ Len(hist) = 3
    /\ hist[1].dSize + hist[1].uaSize >= 1
    /\ hist[2].call.op = "SetCacheSize"
    /\ hist[3].call.op \in Lookups /\ SameKey(hist[1], hist[3])
    /\ hist[3].call.err = ""

(* ---- C25 ---- *)
\* C25: DestroyConnection never panics, on a client it was called on before
\* no more than on another; when it returns both caches have size 0 and the
\* tables are empty, and these are the sizes read right after it.
C25_DestroyAgainAndAgain ==
    /\ \A t \in Threads :
          loc[t].op = "DestroyConnection"
              => /\ pc[t] # "panic"
                 /\ pc[t] = "ret" => dSizeNow = 0 /\ uaSizeNow = 0 /\ TablesEmpty
    /\ \A j \in 1..Len(hist) :
          hist[j].call.op = "DestroyConnection"
              => hist[j].dSize = 0 /\ hist[j].uaSize = 0 /\ hist[j].call.err = ""

\* DestroyConnection has returned twice in a row on a client that had loaded
\* the table of the operating systems
C25_Witness ==
    /\ Len(hist) = 3 /\ pc["t1"] = "idle"
    /\ hist[1].call.op = "GetAllOSes" /\ hist[1].call.retVal # <<>>
    /\ hist[2].call.op = "DestroyConnection"
    /\ hist[3].call.op = "DestroyConnection"
    /\ TablesEmpty
(* ---- C26 ---- *)
\* the call of Create that has just returned to the caller "t1"
CreateReturns == pc["t1"] = "ret" /\ loc["t1"].op = "Create"

\* no field of the client that Create fills was filled
NothingFilled ==
    /\ clientLtime = ""
    /\ StaticCaps = <<>> /\ VirtualCaps = <<>> /\ ImportantHeaders = <<>>

\* C26 as stated: a Create with an empty scheme, with a scheme the transport
\* does not know, or with a host that does not answer, returns an error and
\* no client.
C26_EmptyOrBadSchemeFailsCreate ==
    CreateReturns /\ (loc["t1"].arg \notin SupportedSchemes \/ loc["t1"].Host \notin ReachableHosts)
        => loc["t1"].err # "" /\ ~loc["t1"].client

\* C26, amended: a Create with a non-empty scheme the transport does not
\* know, or with a host that does not answer during its GetInfo, returns an
\* error and no client, and has filled no field; Create returns a client
\* exactly when it returns no error, and then the token and the sorted
\* registry of the answer are all in place; an empty scheme stands for
\* "http" and fails only as "http" would.
C26_BadSchemeOrHostFailsCreate ==
    CreateReturns =>
        LET l == loc["t1"]
        IN  /\ (l.arg # "" /\ l.arg \notin SupportedSchemes) \/ l.Host \notin ReachableHosts
                  => l.err # "" /\ ~l.client
            /\ l.client <=> l.err = ""
            /\ ~l.client => NothingFilled
            /\ l.client =>
                  /\ clientLtime = Ltimes[serverGen]
                  /\ StaticCaps = SortStrings(l.info.StaticCaps)
                  /\ VirtualCaps = SortStrings(l.info.VirtualCaps)
                  /\ ImportantHeaders = l.info.ImportantHeaders
                  /\ httpClient
            /\ l.arg = "" => l.scheme = "http"
            /\ l.arg = "" /\ l.Host \in ReachableHosts /\ l.err # ""
                  => l.err = "server returned empty data or a wrong json format"

\* a Create with the scheme "smtp" has returned an error and no client
C26_Witness ==
    /\ CreateReturns /\ loc["t1"].arg = "smtp" /\ loc["t1"].Host \in ReachableHosts
    /\ loc["t1"].err = "unsupported protocol scheme" /\ ~loc["t1"].client
(* ---- C27 ---- *)
\* the answer of the server that the Create of this caller received
Received == hist[1].call.info

\* C27: on the client that Create returned, HasStaticCapability(name) is
\* true exactly when name is in the static list of the answer Create
\* received, and HasVirtualCapability(name) exactly when it is in the
\* virtual list; a name of the other kind only gives false, and so does
\* every name when the list is empty; neither call returns an error.
C27_HasCapabilityIsMembership ==
    \A i \in 2..Len(hist) :
        LET h == hist[i].call
        IN  /\ h.op = "HasStaticCapability" =>
                  /\ h.has <=> h.arg \in SeqToSet(Received.StaticCaps)
                  /\ h.arg \in SeqToSet(Received.VirtualCaps) \ SeqToSet(Received.StaticCaps)
                        => ~h.has
                  /\ Received.StaticCaps = <<>> => ~h.has
                  /\ h.err = ""
            /\ h.op = "HasVirtualCapability" =>
                  /\ h.has <=> h.arg \in SeqToSet(Received.VirtualCaps)
                  /\ h.arg \in SeqToSet(Received.StaticCaps) \ SeqToSet(Received.VirtualCaps)
                        => ~h.has
                  /\ Received.VirtualCaps = <<>> => ~h.has
                  /\ h.err = ""

\* on one client, HasStaticCapability found the second name of the received
\* list and refused a virtual name, and HasVirtualCapability found that name
C27_Witness ==
    /\ Len(hist) = 4 /\ Len(Received.StaticCaps) = 2
    /\ hist[2].call.op = "HasStaticCapability" /\ hist[2].call.has
    /\ hist[2].call.arg = Received.StaticCaps[2]
    /\ hist[3].call.op = "HasStaticCapability" /\ ~hist[3].call.has
    /\ hist[3].call.arg = "is_ios"
    /\ hist[4].call.op = "HasVirtualCapability" /\ hist[4].call.has
    /\ hist[4].call.arg = "is_ios"
(* ---- C28 ---- *)
\* a lookup with an empty user-agent, an empty header map or an empty id
EmptyInput(l) ==
    \/ l.op = "LookupUserAgent" /\ l.arg = ""
    \/ l.op = "LookupHeaders" /\ l.headers = {}
    \/ l.op = "LookupDeviceID" /\ l.arg = ""

\* the request the client sends for that input as it is
RequestOf(l) ==
    [NoRequest EXCEPT
        !.LookupHeaders = IF l.op = "LookupUserAgent" THEN {<<userAgentHeader, "">>} ELSE {},
        !.WurflID = ""]

\* the caller was given what the server answered to the request of l
ServerAnswered(l) ==
    \/ /\ l.err = ""
       /\ \E ltime \in SeqToSet(Ltimes) : l.deviceData = ServerLookup(l.jrequest, ltime, "ok")
    \/ /\ l.err = "Received error from WM server"
       /\ ~l.deviceData.isNil /\ ~l.deviceData.hasCaps

\* C28: a lookup with an empty user-agent, an empty header map or an empty
\* device id that does not find its key in the cache returns what the
\* server answered, a result or an error, to a request that carries the
\* empty input as it is.
C28_EmptyInputGoesToTheServer ==
    \A i \in 1..Len(hist) :
        LET l == hist[i].call
        IN  EmptyInput(l) /\ ~l.ok =>
                /\ l.jrequest.LookupHeaders = RequestOf(l).LookupHeaders
                /\ l.jrequest.WurflID = RequestOf(l).WurflID
                /\ ServerAnswered(l)

\* an empty user-agent was answered by the server with a device, an empty
\* id with an error
C28_Witness ==
    /\ Len(hist) >= 2
    /\ hist[1].call.op = "LookupUserAgent" /\ EmptyInput(hist[1].call)
    /\ ~hist[1].call.ok /\ hist[1].call.err = "" /\ hist[1].call.deviceData.hasCaps
    /\ hist[2].call.op = "LookupDeviceID" /\ EmptyInput(hist[2].call)
    /\ ~hist[2].call.ok /\ hist[2].call.err = "Received error from WM server"
(* ---- C29 ---- *)
\* the entry was fetched with the requested lists that are committed now
FetchedWithCommitted(e) ==
    /\ e.value.capsFor.RequestedCaps = requestedStaticCaps
    /\ e.value.capsFor.RequestedVCaps = requestedVirtualCaps

\* C29: when every call, a change of the requested capabilities among them,
\* has returned, no cache holds an entry that was fetched with requested
\* lists other than the committed ones.
C29_NoEntryOfOtherCapabilities ==
    Quiescent => \A e \in CacheEntries : FetchedWithCommitted(e)
(* ---- C30 ---- *)
\* the keys of the tables as a fetch from a server that has reloaded its
\* data builds them
OsesAfterReload == BuildOses(OsListing(2), Len(OsListing(2))).keys

MakesAfterReload == BuildMakes(MakeListing(2), Len(MakeListing(2))).keys

\* C30: the client takes a new token only from an answer the server gave
\* after its reload, and then clears the tables.  When it has done so and
\* every call has returned, each table is empty or was fetched after the
\* reload, hence not before the invalidation.
C30_NoTableFromBeforeTheInvalidation ==
    Quiescent /\ clientLtime # Ltimes[1] =>
        /\ deviceOses \in {<<>>, OsesAfterReload}
        /\ deviceMakes \in {<<>>, MakesAfterReload}
(* ---- C31 ---- *)
\* the goroutine holds no mutex
HoldsNothing(t) == \A name \in LockNames : lock[name] # t

UpToAnswer(t) ==
    /\ loc[t].op \in Lookups
    /\ pc[t] \in {"probe_chk", "probe_lock", "probe_get", "req_caps", "req_vcaps", "net"}

\* what the client keeps between calls, but for its transport
Kept == <<caches, clientLtime, tables, requested, registry>>

\* C32: a lookup of a single caller that fails, by a connection error, by
\* an answer that cannot be decoded or by an error message in the answer,
\* returns at once when it has the failure, and no step it took up to there
\* has changed a cache, the stored token, a table, the requested lists or
\* the registry, whatever token the answer carries.
C32_FailedLookupChangesNothing ==
    [][/\ UpToAnswer("t1") /\ pc'["t1"] \notin {pc["t1"], "ret"} => UNCHANGED Kept
       /\ (pc["t1"] = "net" /\ pc'["t1"] # "net" /\ loc'["t1"].err # "")
             => pc'["t1"] = "ret" /\ UNCHANGED Kept]_vars

\* a lookup has returned an error of the server whose answer carries a token
\* that the client has not stored, and the client has a cached entry
C32_Witness ==
    /\ pc["t1"] = "ret" /\ loc["t1"].op \in Lookups
    /\ loc["t1"].err = "Received error from WM server"
    /\ loc["t1"].deviceData.Ltime \notin {"", clientLtime}
    /\ userAgentCache.on /\ lruLen(userAgentCache) > 0
(* ---- C33 ---- *)
\* the token of the answer is the stored one, or the answer has none
SameOrEmptyToken(t) == loc[t].ltime \in {"", clientLtime}

\* C33: clearCachesIfNeeded called with the stored token or with an empty
\* token leaves the stored token, both caches, the tables, the requested
\* lists and the registry as they are, and the method goes on without a
\* call of clearCache.
C33_SameOrEmptyTokenChangesNothing ==
    [][(pc["t1"] = "cc" /\ pc'["t1"] # "cc" /\ SameOrEmptyToken("t1"))
          => /\ UNCHANGED <<clientLtime, caches, tables, requested, registry>>
             /\ pc'["t1"] = AfterCheck(loc["t1"].op)]_vars

\* a lookup whose answer had no token is past the check, and the cache and
\* the table that were filled before it still are
C33_Witness ==
    /\ pc["t1"] = "add_chk" /\ loc["t1"].ltime = "" /\ ~loc["t1"].cleared
    /\ clientLtime # ""
    /\ deviceCache.on /\ lruLen(deviceCache) > 0 /\ loc["t1"].op \in HeaderLookups
    /\ deviceOses # <<>>
(* ---- C34 ---- *)
\* goroutine t executes clearCache
InClearCache(t) ==
    pc[t] \in {"clear_ua_lock", "clear_ua", "clear_dev_lock", "clear_dev",
               "clear_mk_lock", "clear_mk", "clear_makes_lock", "clear_makes",
               "clear_oses_lock", "clear_oses"}

\* goroutine t executes the statement of a method that comes before or after
\* its call of clearCache: the check of the token, the commit of a setter,
\* the end of DestroyConnection
AroundClearCache(t) ==
    pc[t] \in {"cc", "set_static", "set_virtual", "set_both_1", "set_both_2", "destroy"}

\* the methods that clear because of a token
TokenTriggered == Lookups \cup {"GetInfo"}

\* C34: no step of clearCache, and no statement of the method around its
\* call, changes the static or the virtual names of the registry or the
\* important headers, whether the clearing comes from a token, from a setter
\* or from DestroyConnection; a clearing that comes from a token leaves the
\* requested lists as they are, from the check of the token to the end of
\* clearCache.
C34_ClearingKeepsRegistry ==
    [][/\ ((InClearCache("t1") \/ AroundClearCache("t1")) /\ pc'["t1"] # pc["t1"])
             => UNCHANGED registry
       /\ (/\ loc["t1"].op \in TokenTriggered
           /\ (InClearCache("t1") \/ pc["t1"] = "cc")
           /\ pc'["t1"] # pc["t1"])
             => UNCHANGED requested]_vars

\* a lookup has cleared all for a new token on a client with a committed
\* requested static list, and registry and list are still there
C34_Witness ==
    /\ pc["t1"] = "add_chk" /\ loc["t1"].cleared
    /\ requestedStaticCaps # <<>>
    /\ StaticCaps # <<>> /\ VirtualCaps # <<>> /\ ImportantHeaders # <<>>
(* ---- C35 ---- *)
\* the tables a load builds from the answer the server gives before its
\* first reload, and from the answer it gives after it
OsesOfFirst == BuildOses(OsListing(1), Len(OsListing(1)))

OsesOfLater == BuildOses(OsListing(2), Len(OsListing(2)))

MakesOfFirst == BuildMakes(MakeListing(1), Len(MakeListing(1)))

MakesOfLater == BuildMakes(MakeListing(2), Len(MakeListing(2)))

\* key list and map are both empty, or both of one answer of the server
OneAnswer(keys, map, first, later) ==
    \/ keys = <<>> /\ map = {}
    \/ keys = first.keys /\ map = first.map
    \/ serverGen > 1 /\ keys = later.keys /\ map = later.map

\* C35: in every state, while two goroutines load the same table, while one
\* clears and while the server reloads, the key list and the map of a table
\* are both empty or both built from one and the same answer of the server,
\* and the key list holds exactly the keys of the map.
C35_KeysAndMapOfOneAnswer ==
    /\ OneAnswer(deviceOses, deviceOsVerMap, OsesOfFirst, OsesOfLater)
    /\ OneAnswer(deviceMakes, deviceMakesMap, MakesOfFirst, MakesOfLater)
    /\ SeqToSet(deviceOses) = MapKeys(deviceOsVerMap)
    /\ SeqToSet(deviceMakes) = MapKeys(deviceMakesMap)

\* a goroutine holds the mutex to store the table it built from one answer
\* while the table another goroutine has stored is of another answer
C35_Witness ==
    /\ pc["t1"] = "load_put" /\ loc["t1"].op = "GetAllOSes"
    /\ lock["deviceOsesMutex"] = "t1"
    /\ deviceOses # <<>> /\ loc["t1"].keys # deviceOses
(* ---- C36 ---- *)
\* the names that are both a static and a virtual capability of the registry
InBothRegistries == SeqToSet(StaticCaps) \cap SeqToSet(VirtualCaps)

\* C36: in every state the requested static list holds names of the static
\* registry only and the requested virtual list names of the virtual
\* registry only; when SetRequestedCapabilities returns, every name of its
\* list that is in both registries is in the requested static list and not
\* in the requested virtual list.
C36_RequestedNamesAreOfTheirRegistry ==
    /\ SeqToSet(requestedStaticCaps) \subseteq SeqToSet(StaticCaps)
    /\ SeqToSet(requestedVirtualCaps) \subseteq SeqToSet(VirtualCaps)
    /\ (pc["t1"] = "ret" /\ loc["t1"].op = "SetRequestedCapabilities") =>
          \A name \in SeqToSet(loc["t1"].CapsList.names) \cap InBothRegistries :
              /\ name \in SeqToSet(requestedStaticCaps)
              /\ name \notin SeqToSet(requestedVirtualCaps)

\* SetRequestedCapabilities returns on a client whose registry has
\* brand_name in both lists: the name is requested as a static one only
C36_Witness ==
    /\ pc["t1"] = "ret" /\ loc["t1"].op = "SetRequestedCapabilities"
    /\ "brand_name" \in InBothRegistries
    /\ requestedStaticCaps = <<"brand_name">>
    /\ requestedVirtualCaps = <<"is_ios">>
(* ---- C37 ---- *)
\* the method the single caller executes
Executing == loc["t1"].op

\* C37: a step that changes the requested virtual list is a step of
\* SetRequestedVirtualCapabilities or of SetRequestedCapabilities, and a step
\* that changes the requested static list is a step of
\* SetRequestedStaticCapabilities or of SetRequestedCapabilities: no step of
\* SetRequestedStaticCapabilities, with a list or with nil, changes the
\* virtual list, and none of SetRequestedVirtualCapabilities the static one.
C37_SetterChangesItsOwnList ==
    [][/\ requestedVirtualCaps' # requestedVirtualCaps
             => Executing \in {"SetRequestedVirtualCapabilities", "SetRequestedCapabilities"}
       /\ requestedStaticCaps' # requestedStaticCaps
             => Executing \in {"SetRequestedStaticCapabilities", "SetRequestedCapabilities"}]_vars

\* SetRequestedStaticCapabilities(nil) returns: it has reset the static list
\* and cleared, and the requested virtual list is still there
C37_Witness ==
    /\ pc["t1"] = "ret" /\ Executing = "SetRequestedStaticCapabilities"
    /\ loc["t1"].CapsList.nil
    /\ requestedStaticCaps = <<>> /\ requestedVirtualCaps = <<"is_ios">>
(* ---- C38 ---- *)
\* a recorded call of LookupUserAgent that returned a device
UserAgentLookup(h) == h.call.op = "LookupUserAgent" /\ h.call.err = ""

\* C38: whatever important headers the server has declared, two calls of
\* LookupUserAgent with different user agents probe the cache with
\* different keys, and the device a call returns was found for its own user
\* agent.
C38_OtherUserAgentOtherKey ==
    /\ \A i, j \in 1..Len(hist) :
          (/\ UserAgentLookup(hist[i]) /\ UserAgentLookup(hist[j])
           /\ hist[i].call.arg # hist[j].call.arg)
             => hist[i].key # hist[j].key
    /\ \A i \in 1..Len(hist) :
          UserAgentLookup(hist[i])
             => hist[i].call.deviceData.capsFor.LookupHeaders
                    = {<<userAgentHeader, hist[i].call.arg>>}
(* ---- C39 ---- *)
\* the names of a listing of OS versions and of a listing of devices
OsNamesOf(listing) == [i \in 1..Len(listing) |-> listing[i].OsName]

BrandNamesOf(listing) == [i \in 1..Len(listing) |-> listing[i].BrandName]

\* what the tables keep of an entry of a listing
OsValuesOf(listing) == [i \in 1..Len(listing) |-> listing[i].OsVersion]

BrandValuesOf(listing) ==
    [i \in 1..Len(listing) |->
        [ModelName |-> listing[i].ModelName, MarketingName |-> listing[i].MarketingName]]

\* the place where a name stands first in a list of names
FirstPlace(names, name) ==
    CHOOSE i \in 1..Len(names) :
        names[i] = name /\ \A j \in 1..(i - 1) : names[j] # name

\* the values of the entries of a name, in the order of the listing
RECURSIVE ValuesUnder(_, _, _)
ValuesUnder(names, values, name) ==
    IF names = <<>> THEN <<>>
    ELSE (IF Head(names) = name THEN <<Head(values)>> ELSE <<>>)
         \o ValuesUnder(Tail(names), Tail(values), name)

\* keys and map are the table of a listing with these names and values
TableOfListing(keys, map, names, values) ==
    /\ SeqToSet(keys) = SeqToSet(names)
    /\ \A a, b \in 1..Len(keys) :
          a < b => FirstPlace(names, keys[a]) < FirstPlace(names, keys[b])
    /\ MapKeys(map) = SeqToSet(names)
    /\ \A name \in SeqToSet(names) : MapGet(map, name) = ValuesUnder(names, values, name)

\* C39: a table that a load has stored holds, for a listing the server has
\* sent, every name of the listing once in its key list, in the order in
\* which the names first appear, and in its map for every name all values
\* of its entries in the order of the listing: the versions of an OS name,
\* blank ones too, and the pairs of model and marketing name of a brand.
C39_TableOfTheListing ==
    /\ deviceOses # <<>> =>
          \E gen \in 1..serverGen :
              TableOfListing(deviceOses, deviceOsVerMap,
                             OsNamesOf(OsListing(gen)), OsValuesOf(OsListing(gen)))
    /\ deviceMakes # <<>> =>
          \E gen \in 1..serverGen :
              TableOfListing(deviceMakes, deviceMakesMap,
                             BrandNamesOf(MakeListing(gen)), BrandValuesOf(MakeListing(gen)))

\* both tables are loaded: Android has a version and a blank one, Nokia two
\* models, and each name stands once, where it came first
C39_Witness ==
    /\ deviceOses = <<"Android", "iOS">>
    /\ MapGet(deviceOsVerMap, "Android") = <<"7.0", "">>
    /\ deviceMakes = <<"Nokia", "Apple">>
    /\ Len(MapGet(deviceMakesMap, "Nokia")) = 2

(* ---- C40 ---- *)

\* the values the caller of a header lookup supplied for the header name, under
\* any casing of it: the values of the map of LookupHeaders, the values added
\* to request.Header of LookupRequest
SuppliedValues(t, name) ==
    IF loc[t].op = "LookupHeaders"
    THEN {p[2] : p \in {q \in loc[t].headers : ToLower(q[1]) = ToLower(name)}}
    ELSE SeqToSet(HeaderValues(loc[t].header, CanonicalMIMEHeaderKey(name)))

\* t is about to send the payload of a header lookup that missed the cache
SendsHeaders(t) ==
    /\ pc[t] = "net"
    /\ loc[t].op \in {"LookupHeaders", "LookupRequest"}

\* the payload has the committed requested lists, entries under names of
\* important headers only, one per name, each with a non-empty value that the
\* caller supplied for that header
PayloadOfTheCaller(t) ==
    LET sent == loc[t].jrequest.LookupHeaders
    IN  /\ loc[t].jrequest.RequestedCaps = requestedStaticCaps
        /\ loc[t].jrequest.RequestedVCaps = requestedVirtualCaps
        /\ loc[t].jrequest.WurflID = ""
        /\ MapKeys(sent) \subseteq SeqToSet(ImportantHeaders)
        /\ \A p, q \in sent : p[1] = q[1] => p = q
        /\ \A p \in sent : p[2] # "" /\ p[2] \in SuppliedValues(t, p[1])

\* C40 as stated: the payload that LookupHeaders and LookupRequest send on a
\* cache miss has exactly one entry for each important header for which the
\* caller supplied a non-empty value under any casing of the name, under the
\* important header's name, no other entry, and the requested lists committed
\* when the payload is built.
C40_EntryForEveryNonEmptyValue ==
    SendsHeaders("t1") =>
        /\ PayloadOfTheCaller("t1")
        /\ MapKeys(loc["t1"].jrequest.LookupHeaders) =
              {name \in SeqToSet(ImportantHeaders) :
                  SuppliedValues("t1", name) \ {""} # {}}

\* C40, amended: the payload that LookupHeaders and LookupRequest send on a
\* cache miss has the requested lists committed when it is built and entries
\* under names of important headers only, one per name, with a non-empty value
\* the caller supplied for it under some casing; it has an entry for every
\* important header that the caller supplied with non-empty values only, and
\* for a header supplied both with an empty and a non-empty value an entry
\* when the value read is not the empty one: the first added value of a
\* request, either value of a map.
C40_EntryForTheValueRead ==
    SendsHeaders("t1") =>
        /\ PayloadOfTheCaller("t1")
        /\ \A name \in SeqToSet(ImportantHeaders) :
              /\ (SuppliedValues("t1", name) # {} /\ "" \notin SuppliedValues("t1", name))
                    => name \in MapKeys(loc["t1"].jrequest.LookupHeaders)
              /\ loc["t1"].op = "LookupRequest" =>
                    (name \in MapKeys(loc["t1"].jrequest.LookupHeaders)
                        <=> HeaderGet(loc["t1"].header, name) # "")

\* a payload with a header the caller gave in small letters, under the name of
\* the server, and with a requested list that a setter committed before
C40_Witness ==
    /\ SendsHeaders("t1")
    /\ loc["t1"].op = "LookupHeaders"
    /\ loc["t1"].headers = {<<"user-agent", "a">>, <<"Accept-Encoding", "gzip">>}
    /\ loc["t1"].jrequest.LookupHeaders = {<<"User-Agent", "a">>}
    /\ loc["t1"].jrequest.RequestedCaps # <<>>

====
